---- MODULE Spec2Model ----
(***************************************************************************)
(* State-machine model of the ragDemo repository.                          *)
(*                                                                         *)
(*   utils/error_logger.py    APIErrorTracker (log_error, log_success,     *)
(*                            should_continue)                             *)
(*   utils/confluence_api.py  get_all_spaces_list (paginated listing)      *)
(*   app_confluence_v2.py     get_pages_for_space_key (paginated listing), *)
(*                            main (label and content enrichment, removal  *)
(*                            of internal-only pages, CSV export)          *)
(*   utils/data_prep.py       clean_data_pinecone_schema (with json.dumps  *)
(*                            and json.loads on its metadata), and the row *)
(*                            and retry loops of                           *)
(*                            generate_embeddings_and_add_to_df            *)
(*   utils/openai_logic.py    get_chat_completion_messages (retry loop)    *)
(*   utils/confluence_api.py  api_call (status codes, body decoding)       *)
(*   manage_pinecone_index.py create, delete and reset of the index        *)
(*   get_space_id_and_pages.py  main (space lookup, page loop, CSV)        *)
(*   run_automated_pipeline.py  run_command and main (the three steps)     *)
(*   app_pinecone_openai.py   extract_info and main (credentials, batch    *)
(*                            ingestion, upsert, question answering)       *)
(*                                                                         *)
(* Python values are modelled as follows: a dict is a function whose       *)
(* DOMAIN is the set of keys present; None, True and False returned to a   *)
(* caller are the strings "None", "True", "False"; a str is a sequence of  *)
(* one-character strings; time.time() is the integer clock now (seconds).  *)
(***************************************************************************)
EXTENDS Integers, Sequences, FiniteSets, TLC

VARIABLES
    \* ---- utils/error_logger.py: the process-wide APIErrorTracker
    error_counts,       \* defaultdict(int): error_type -> count
    last_error_time,    \* defaultdict(float): error_type -> time of last error
    success_counts,     \* defaultdict(int): operation_type -> count
    log_lines,          \* number of JSON lines appended to the daily log file
    now,                \* time.time()
    \* ---- the caller's view of the last tracker call (name, arguments, result)
    last_op,
    logged,             \* history: log_error calls made so far, per error type
    \* ---- the document service's collection endpoint and a paginating lister
    pages,              \* the responses the endpoint serves, in offset order
    space_listed,       \* whether the spaces listing holds the configured key
    lister,             \* the listing operation in progress
    lister_pc,          \* its position: "resolve", "by_id", "by_key", "done"
    start,              \* its local start
    all_pages,          \* its local all_spaces / all_pages
    requests,           \* history: start offset of every list request issued
    fetch_failed,       \* history: some list request returned no page response
    \* ---- app_confluence_v2.py main and the document service it reads
    space_key,          \* whether SPACE_KEY is configured
    fetched,            \* page ids returned by get_pages_for_space_key
    internal,           \* page ids that carry the internal_only label
    main_pc,            \* "start", "enrich", "filter", "done"
    df,                 \* the DataFrame: rows [id, is_internal, content]
    row,                \* position of the df.iterrows() loop
    removed,            \* the printed number of removed pages (-1: none printed)
    csv,                \* ./data/confluence_pages.csv
    label_failed,       \* history: some label lookup returned None
    \* ---- utils/data_prep.py: cleaning a table and decoding its metadata
    table,              \* the input DataFrame: rows [id, tiny_link, content]
    cleaned,            \* what clean_data_pinecone_schema returned
    decoded,            \* per cleaned row, what json.loads / meta.get produced
    clean_pc,           \* "input", "cleaned", "decoded"
    \* ---- utils/openai_logic.py: one call of get_chat_completion_messages
    chat_pc,            \* "request" (top of the while loop) or "returned"
    retry_count,        \* the local retry_count
    chat_waits,         \* history: the arguments of time.sleep, in order
    chat_kinds,         \* history: how each chat request ended, in order
    chat_ret,           \* what the call returned
    \* ---- utils/data_prep.py: one call of generate_embeddings_and_add_to_df
    batch,              \* the DataFrame passed in: rows [id, metadata]
    emb_pc,             \* "call", "row", "while", "request", "returned", "raised"
    emb_ret,            \* what the call returned, or the exception it raised
    emb_i,              \* position of the for loop, 1..Len(batch)+1
    retries,            \* the local retries of the current row
    values,             \* the 'values' column: per row "None" or "list"
    embedding_status,   \* the 'embedding_status' column, << >> while absent
    successful_embeddings,
    failed_embeddings,
    emb_waits,          \* history: per row, the backoff sleeps in order
    emb_kinds,          \* history: per row, how each embedding request ended
    emb_logs,           \* history: per row, log_error("rate_limit") calls made
    counted,            \* history: per row, "none", "success" or "failed"
    \* ---- utils/confluence_api.py: one call of api_call
    api_in,             \* the request's fate: [network_ok, status_code, body]
    json_error_caught,  \* the build: response.json() raises a RequestException
    api_pc,             \* "call" or "done"
    api_ret,            \* what the caller gets: [kind, body], kind "json", "None", "raised"
    \* ---- manage_pinecone_index.py: the index service and a caller of the utility
    api_key,            \* whether PINECONE_API_KEY is set
    index_listed,       \* whether pc.list_indexes() holds the index name
    index_pending,      \* a request accepted but not yet visible: "none", "create", "delete"
    ix_fn,              \* the running create/delete function, or "none"
    ix_pc,              \* "idle", "check" (entry of the function), "wait" (polling loop)
    ix_reset,           \* the half reset_pinecone_index is in: "none", "delete", "create"
    ix_cur,             \* history: the record of the running create/delete call
    ix_reset_rec,       \* history: the record of the running reset call
    ix_log,             \* history: the records of the finished calls, in order
    ix_polls,           \* time.sleep(5) calls made by the running polling loop
    ix_calls,           \* calls made by the caller so far
    \* ---- get_space_id_and_pages.py: the Space/Page Export CLI
    exp_spaces,         \* how the spaces lookup ends: [kind, id]
    exp_served,         \* the page-list responses the service gives, in request order
    exp_limit,          \* --limit
    exp_pc,             \* "resolve", "loop", "display", "exited"
    exp_space_id,       \* space_id: "None" or the id
    exp_start,          \* start
    exp_all_pages,      \* all_pages
    exp_requests,       \* history: the page-list requests issued, [start, limit]
    exp_file,           \* the output file: NoFile or the rows written
    exit_code,          \* the process exit code, "running" before the exit
    \* ---- run_automated_pipeline.py: the Pipeline Orchestrator
    pl_space_key,       \* whether SPACE_KEY is set
    pl_rag_exists,      \* whether ./app_pinecone_openai.py exists
    pl_files,           \* the names in ./data
    pl_pc,              \* "start", "run1", "run2", "check3", "run3", "listing", "done", "crashed"
    pl_running,         \* the steps whose child process is running
    pl_events,          \* history: [step, what, code] for every start and exit of a step
    pl_listed,          \* the listing: [printed, names]
    \* ---- app_pinecone_openai.py: one call of main(query)
    rag_pinecone_key,   \* whether PINECONE_API_KEY is set
    rag_openai_key,     \* whether OPENAI_API_KEY is set
    rag_csv,            \* the CSV file: [exists, rows]
    rag_pc,             \* "main", "refresh", "batch", "embedding", "upsert", "handler", "answer", "returned"
    rag_index,          \* index: "None" until get_pinecone_index returned it
    rag_df,             \* df after the cleaning
    rag_i,              \* i of the batch loop
    processed_df,       \* processed_df: rows [id, values]
    batch_pause_time,   \* batch_pause_time, in half seconds
    rag_start_time,     \* start_time of the running batch
    rag_calls,          \* history: the calls main made, in order
    rag_embedded,       \* history: the ids whose embedding request succeeded, in order
    rag_upserted,       \* history: [called, rows] of upsert_data
    rag_res,            \* res: the matches index.query returned
    rag_raised,         \* history: what the try block of lines 179-205 raised
    rag_ret,            \* what main returned: [kind, text], kind "running" before the return
    \* ---- app_confluence.py (Extraction Tool v1): main
    v1_connected,       \* what test_api_connection() returns
    v1_space,           \* the pages of the space as the service holds them
    v1_pc,              \* position in main
    v1_requests,        \* the fetch_pages(start, limit) calls made so far
    v1_all_pages,       \* all_pages
    v1_df,              \* df
    v1_csv,             \* ./data/kb.csv
    \* ---- app_pinecone_openai.py: the other requests the Gradio server is handling
    other_pending,      \* handler threads between should_continue (data_prep.py line 125) and log_error (line 159)
    \* ---- utils/confluence_api.py: one fetch_labels call
    lbl_json,           \* what api_call returned for the labels URL
    lbl_pc,             \* "call", "returned" or "raised"
    lbl_ret             \* the value fetch_labels returned

trackerVars == <<error_counts, last_error_time, success_counts, log_lines, now,
                 last_op, logged>>
pagingVars == <<pages, space_listed, lister, lister_pc, start, all_pages, requests,
                fetch_failed>>
extractVars == <<space_key, fetched, internal, main_pc, df, row, removed, csv,
                 label_failed>>
cleanVars == <<table, cleaned, decoded, clean_pc>>
chatVars == <<chat_pc, retry_count, chat_waits, chat_kinds, chat_ret>>
embedVars == <<batch, emb_pc, emb_ret, emb_i, retries, values, embedding_status,
               successful_embeddings, failed_embeddings, emb_waits, emb_kinds,
               emb_logs, counted>>
apiVars == <<api_in, json_error_caught, api_pc, api_ret>>
indexVars == <<api_key, index_listed, index_pending, ix_fn, ix_pc, ix_reset, ix_cur, ix_reset_rec, ix_log, ix_polls, ix_calls>>
exportVars == <<exp_spaces, exp_served, exp_limit, exp_pc, exp_space_id, exp_start, exp_all_pages, exp_requests, exp_file, exit_code>>
pipelineVars == <<pl_space_key, pl_rag_exists, pl_files, pl_pc, pl_running, pl_events, pl_listed>>
ragVars == <<rag_pinecone_key, rag_openai_key, rag_csv, rag_pc, rag_index, rag_df, rag_i, processed_df, batch_pause_time, rag_start_time, rag_calls, rag_embedded, rag_upserted, rag_res, rag_raised, rag_ret>>
legacyVars == <<v1_connected, v1_space, v1_pc, v1_requests, v1_all_pages, v1_df, v1_csv>>
sharedVars == <<other_pending>>
labelVars == <<lbl_json, lbl_pc, lbl_ret>>
vars == <<trackerVars, pagingVars, extractVars, cleanVars, chatVars, embedVars, apiVars, indexVars, exportVars, pipelineVars, ragVars, legacyVars, sharedVars, labelVars>>

nonTrackerVars == <<pagingVars, extractVars, cleanVars, chatVars, embedVars, apiVars, indexVars, exportVars, pipelineVars, ragVars, legacyVars, sharedVars, labelVars>>
nonPagingVars == <<trackerVars, extractVars, cleanVars, chatVars, embedVars, apiVars, indexVars, exportVars, pipelineVars, ragVars, legacyVars, sharedVars, labelVars>>
nonExtractVars == <<trackerVars, pagingVars, cleanVars, chatVars, embedVars, apiVars, indexVars, exportVars, pipelineVars, ragVars, legacyVars, sharedVars, labelVars>>
nonCleanVars == <<trackerVars, pagingVars, extractVars, chatVars, embedVars, apiVars, indexVars, exportVars, pipelineVars, ragVars, legacyVars, sharedVars, labelVars>>
nonChatVars == <<pagingVars, extractVars, cleanVars, embedVars, apiVars, indexVars, exportVars, pipelineVars, ragVars, legacyVars, sharedVars, labelVars>>
nonEmbedVars == <<pagingVars, extractVars, cleanVars, chatVars, apiVars, indexVars, exportVars, pipelineVars, ragVars, legacyVars, sharedVars, labelVars>>
nonApiVars == <<trackerVars, pagingVars, extractVars, cleanVars, chatVars, embedVars, indexVars, exportVars, pipelineVars, ragVars, legacyVars, sharedVars, labelVars>>
nonIndexVars == <<trackerVars, pagingVars, extractVars, cleanVars, chatVars, embedVars, apiVars, exportVars, pipelineVars, ragVars, legacyVars, sharedVars, labelVars>>
nonExportVars == <<trackerVars, pagingVars, extractVars, cleanVars, chatVars, embedVars, apiVars, indexVars, pipelineVars, ragVars, legacyVars, sharedVars, labelVars>>
nonPipelineVars == <<trackerVars, pagingVars, extractVars, cleanVars, chatVars, embedVars, apiVars, indexVars, exportVars, ragVars, legacyVars, sharedVars, labelVars>>
nonRagVars == <<pagingVars, extractVars, cleanVars, chatVars, apiVars, indexVars, exportVars, pipelineVars, legacyVars, sharedVars, labelVars>>
nonRagChatVars == <<pagingVars, extractVars, cleanVars, apiVars, indexVars, exportVars, pipelineVars, legacyVars, sharedVars, labelVars>>
nonLegacyVars == <<trackerVars, pagingVars, extractVars, cleanVars, chatVars, embedVars, apiVars, indexVars, exportVars, pipelineVars, ragVars, sharedVars, labelVars>>
nonSharedVars == <<pagingVars, extractVars, cleanVars, chatVars, embedVars, apiVars, indexVars, exportVars, pipelineVars, ragVars, legacyVars, labelVars>>
nonLabelVars == <<trackerVars, pagingVars, extractVars, cleanVars, chatVars, embedVars, apiVars, indexVars, exportVars, pipelineVars, ragVars, legacyVars, sharedVars>>

(***************************************************************************)
(* Bounds of the model.                                                    *)
(***************************************************************************)
MaxErrors == 5          \* log_error("rate_limit") calls explored
MaxOtherErrors == 1     \* log_error calls of the other type explored
MaxTime == 3            \* clock ticks explored in the tracker specification
MaxSuccess == 1         \* log_success calls explored
ScenarioWindow == 2     \* window_seconds of the one-type, threshold-5 scenario

ErrorTypes == {"rate_limit", "api_connection"}
OperationTypes == {"embedding_generation"}
DefaultThreshold == 5
Thresholds == {2, DefaultThreshold}
Windows == {1, 2}

(***************************************************************************)
(* utils/error_logger.py                                                   *)
(***************************************************************************)
\* d[k] of a defaultdict(int) / defaultdict(float) read without inserting
Get(d, k) == IF k \in DOMAIN d THEN d[k] ELSE 0

\* d[k] = v
Put(d, k, v) == [x \in DOMAIN d \cup {k} |-> IF x = k THEN v ELSE d[x]]

\* (variant: the count is assigned, not incremented)
log_error_counts_Assigned(error_type) == Put(error_counts, error_type, 1)

\* log_error, lines 29-30: the in-memory part, executed before the file append
log_error_counts(error_type) ==
    Put(error_counts, error_type, Get(error_counts, error_type) + 1)

log_error_time(error_type) == Put(last_error_time, error_type, now)

\* log_error as a step of a caller: counters first, then the append, which
\* either writes one line (appended = TRUE) or raises OSError out of log_error
log_error(error_type, appended) ==
    /\ error_counts' = log_error_counts(error_type)
    /\ last_error_time' = log_error_time(error_type)
    /\ log_lines' = IF appended THEN log_lines + 1 ELSE log_lines
    /\ logged' = Put(logged, error_type, Get(logged, error_type) + 1)

\* log_success, line 52
log_success(operation_type) ==
    success_counts' =
        Put(success_counts, operation_type, Get(success_counts, operation_type) + 1)

\* (variant: the tracker never asks for a stop)
should_continue_result_Always(error_type, threshold, window_seconds) == TRUE

\* (variant: the window test is >= instead of >)
should_continue_result_Ge(error_type, threshold, window_seconds) ==
    IF error_type \notin DOMAIN error_counts THEN TRUE
    ELSE IF error_counts[error_type] < threshold THEN TRUE
    ELSE IF now - Get(last_error_time, error_type) >= window_seconds THEN TRUE
    ELSE FALSE

\* should_continue, lines 85-102: the value returned
should_continue_result(error_type, threshold, window_seconds) ==
    IF error_type \notin DOMAIN error_counts THEN TRUE
    ELSE IF error_counts[error_type] < threshold THEN TRUE
    ELSE IF now - Get(last_error_time, error_type) > window_seconds THEN TRUE
    ELSE FALSE

\* should_continue, lines 97-98: the counter after the call
should_continue_counts(error_type, threshold, window_seconds) ==
    IF /\ error_type \in DOMAIN error_counts
       /\ ~(error_counts[error_type] < threshold)
       /\ now - Get(last_error_time, error_type) > window_seconds
    THEN [error_counts EXCEPT ![error_type] = 0]
    ELSE error_counts

BoolStr(b) == IF b THEN "True" ELSE "False"

NoOp == [name |-> "none", arg |-> "none", threshold |-> 0, window |-> 0, ret |-> "None"]

\* __init__, lines 17-25: a fresh tracker
TrackerInit ==
    /\ error_counts = << >>
    /\ last_error_time = << >>
    /\ success_counts = << >>
    /\ log_lines = 0
    /\ now = 0
    /\ last_op = NoOp
    /\ logged = [t \in ErrorTypes |-> 0]

(***************************************************************************)
(* utils/confluence_api.py and app_confluence_v2.py: paginated listing.    *)
(*                                                                         *)
(* What a list request returns to the lister is a record with a kind:      *)
(* "page" (a body with results and possibly _links.next), "no_results" (a  *)
(* 200 body without a results key) or "none" (api_call returned None).     *)
(***************************************************************************)
MaxResponses == 3       \* responses the endpoint holds
MaxPerPage == 2         \* results per response

SpacesLimit == 100
PagesLimit == 25

NoneResponse == [kind |-> "none", results |-> << >>, next |-> FALSE]
NoResultsBody == [kind |-> "no_results", results |-> << >>, next |-> FALSE]
PageResponse(k, n, nxt) ==
    [kind |-> "page", results |-> [j \in 1..n |-> 10 * k + j], next |-> nxt]

\* every sequence of responses the endpoint may hold
ResponseSeqs ==
    UNION {
        { [k \in 1..len |-> IF shape[k].n = -1 THEN NoResultsBody
                            ELSE PageResponse(k, shape[k].n, shape[k].nxt)] :
            shape \in [1..len -> [n : -1..MaxPerPage, nxt : BOOLEAN]] }
        : len \in 1..MaxResponses }

\* the body the endpoint serves for ?limit=&start= ; past the last response the
\* collection is exhausted: no results, no next link
Serve(offset, limit) ==
    LET k == (offset \div limit) + 1
    IN IF k <= Len(pages) THEN pages[k] ELSE PageResponse(k, 0, FALSE)

\* api_call, confluence_api.py lines 12-35: the parsed body on HTTP 200, None on
\* any other status or on a network failure
api_call(http_ok, body) == IF http_ok THEN body ELSE NoneResponse

\* get_space_id_by_key, lines 70-91: the key resolves when the call succeeds and
\* the first page of the spaces listing holds the key
get_space_id_by_key(http_ok) == http_ok /\ space_listed

\* get_pages_by_space_key, lines 100-108
get_pages_by_space_key(resolve_ok, http_ok, offset, limit) ==
    IF get_space_id_by_key(resolve_ok)
    THEN api_call(http_ok, Serve(offset, limit))
    ELSE NoneResponse

\* `if not data or "results" not in data`
LacksResults(resp) == resp.kind # "page"

\* (variant: the next link is looked up under a key the body never has)
LacksNext_NeverSeen(resp) == FALSE

\* `if not data.get("_links", {}).get("next")`
LacksNext(resp) == ~resp.next

PagingIdle ==
    /\ pages = << >>
    /\ space_listed = FALSE
    /\ lister = "none"
    /\ lister_pc = "done"
    /\ start = 0
    /\ all_pages = << >>
    /\ requests = << >>
    /\ fetch_failed = FALSE

PagingInit ==
    /\ pages \in ResponseSeqs
    /\ space_listed \in BOOLEAN
    /\ lister \in {"get_all_spaces_list", "get_pages_for_space_key"}
    /\ lister_pc = IF lister = "get_all_spaces_list" THEN "by_id" ELSE "resolve"
    /\ start = 0
    /\ all_pages = << >>
    /\ requests = << >>
    /\ fetch_failed = FALSE

\* one iteration of the `while True` loop over a response already fetched
LoopBody(resp, limit) ==
    /\ requests' = Append(requests, start)
    /\ fetch_failed' = (fetch_failed \/ resp.kind # "page")
    /\ IF LacksResults(resp) \/ resp.results = << >>
       THEN /\ lister_pc' = "done"
            /\ UNCHANGED <<start, all_pages>>
       ELSE /\ all_pages' = all_pages \o resp.results
            /\ IF LacksNext(resp)
               THEN /\ lister_pc' = "done"
                    /\ UNCHANGED start
               ELSE /\ start' = start + limit
                    /\ UNCHANGED lister_pc
    /\ UNCHANGED <<pages, space_listed, lister>>
    /\ UNCHANGED nonPagingVars

\* get_all_spaces_list, confluence_api.py lines 52-66
SpacesIteration ==
    /\ lister = "get_all_spaces_list"
    /\ lister_pc = "by_id"
    /\ \E http_ok \in BOOLEAN :
          LoopBody(api_call(http_ok, Serve(start, SpacesLimit)), SpacesLimit)

\* (variant: the listing is given up when the key does not resolve)
after_resolve_Aborts(space_id) == IF space_id THEN "by_id" ELSE "done"

\* app_confluence_v2.py lines 42 and 70-79: `if space_id:` ... `else:` the
\* loop over get_pages_by_space_key
after_resolve(space_id) == IF space_id THEN "by_id" ELSE "by_key"

\* get_pages_for_space_key, app_confluence_v2.py lines 40-47 and 72-77
ResolveSpace ==
    /\ lister = "get_pages_for_space_key"
    /\ lister_pc = "resolve"
    /\ \E http_ok \in BOOLEAN :
          lister_pc' = after_resolve(get_space_id_by_key(http_ok))
    /\ UNCHANGED <<pages, space_listed, lister, start, all_pages, requests,
                   fetch_failed>>
    /\ UNCHANGED nonPagingVars

\* get_pages_for_space_key, lines 50-68
PagesByIdIteration ==
    /\ lister = "get_pages_for_space_key"
    /\ lister_pc = "by_id"
    /\ \E http_ok \in BOOLEAN :
          LoopBody(api_call(http_ok, Serve(start, PagesLimit)), PagesLimit)

\* get_pages_for_space_key, lines 79-97
PagesByKeyIteration ==
    /\ lister = "get_pages_for_space_key"
    /\ lister_pc = "by_key"
    /\ \E resolve_ok \in BOOLEAN, http_ok \in BOOLEAN :
          LoopBody(get_pages_by_space_key(resolve_ok, http_ok, start, PagesLimit),
                   PagesLimit)

PagingNext ==
    SpacesIteration \/ ResolveSpace \/ PagesByIdIteration \/ PagesByKeyIteration

(***************************************************************************)
(* app_confluence_v2.py: main.  The list get_pages_for_space_key returned  *)
(* is drawn at the start from the lists the lister can return.             *)
(***************************************************************************)
MaxPages == 3           \* pages in the space

\* (variant: the label name compared never matches)
fetch_labels_WrongName(http_ok, page_id) == IF http_ok THEN "False" ELSE "None"

\* fetch_labels, confluence_api.py lines 127-147: True / False when the labels
\* request succeeds, None when api_call returned None
fetch_labels(http_ok, page_id) ==
    IF http_ok THEN BoolStr(page_id \in internal) ELSE "None"

\* fetch_page_content, lines 110-125: the storage body, or None
fetch_page_content(http_ok, page_id) == IF http_ok THEN "html" ELSE "None"

\* create_pages_dataframe, app_confluence_v2.py lines 101-120, with the columns
\* add_content_and_labels_to_dataframe adds at lines 125-130
NewRow(page_id) == [id |-> page_id, is_internal |-> FALSE, content |-> ""]

\* df[df['is_internal'] != True], line 193
RemoveInternal(rows) == SelectSeq(rows, LAMBDA r : r.is_internal # TRUE)

NoFile == [written |-> FALSE, rows |-> << >>]

ExtractIdle ==
    /\ space_key = FALSE
    /\ fetched = << >>
    /\ internal = {}
    /\ main_pc = "done"
    /\ df = << >>
    /\ row = 0
    /\ removed = -1
    /\ csv = NoFile
    /\ label_failed = FALSE

ExtractInit ==
    /\ space_key \in BOOLEAN
    /\ \E n \in 0..MaxPages : fetched = [i \in 1..n |-> i]
    /\ internal \in SUBSET {fetched[i] : i \in 1..Len(fetched)}
    /\ main_pc = "start"
    /\ df = << >>
    /\ row = 0
    /\ removed = -1
    /\ csv = NoFile
    /\ label_failed = FALSE

\* main, lines 171-176: no SPACE_KEY, the spaces are listed and main returns
MainNoKey ==
    /\ main_pc = "start"
    /\ ~space_key
    /\ main_pc' = "done"
    /\ UNCHANGED <<space_key, fetched, internal, df, row, removed, csv, label_failed>>
    /\ UNCHANGED nonExtractVars

\* main, lines 179-189 and 198-199
MainFetchPages ==
    /\ main_pc = "start"
    /\ space_key
    /\ IF fetched = << >>
       THEN /\ main_pc' = "done"
            /\ UNCHANGED <<df, row>>
       ELSE /\ df' = [i \in 1..Len(fetched) |-> NewRow(fetched[i])]
            /\ row' = 1
            /\ main_pc' = "enrich"
    /\ UNCHANGED <<space_key, fetched, internal, removed, csv, label_failed>>
    /\ UNCHANGED nonExtractVars

\* add_content_and_labels_to_dataframe, lines 133-154: one iteration
EnrichRow ==
    /\ main_pc = "enrich"
    /\ \E labels_ok \in BOOLEAN, content_ok \in BOOLEAN :
          LET page_id == df[row].id
              is_internal == fetch_labels(labels_ok, page_id)
              html_content == fetch_page_content(content_ok, page_id)
              r1 == IF is_internal # "None"
                    THEN [df[row] EXCEPT !.is_internal = (is_internal = "True")]
                    ELSE df[row]
              r2 == IF html_content # "None"
                    THEN [r1 EXCEPT !.content = "text"]
                    ELSE r1
          IN /\ df' = [df EXCEPT ![row] = r2]
             /\ label_failed' = (label_failed \/ is_internal = "None")
    /\ IF row < Len(df)
       THEN row' = row + 1 /\ UNCHANGED main_pc
       ELSE main_pc' = "filter" /\ UNCHANGED row
    /\ UNCHANGED <<space_key, fetched, internal, removed, csv>>
    /\ UNCHANGED nonExtractVars

\* main, lines 192-197, and save_to_csv, lines 158-167
FilterAndSave ==
    /\ main_pc = "filter"
    /\ df' = RemoveInternal(df)
    /\ removed' = Len(df) - Len(RemoveInternal(df))
    /\ IF RemoveInternal(df) # << >>
       THEN \E write_ok \in BOOLEAN :
               csv' = IF write_ok
                      THEN [written |-> TRUE, rows |-> RemoveInternal(df)]
                      ELSE csv
       ELSE UNCHANGED csv
    /\ main_pc' = "done"
    /\ UNCHANGED <<space_key, fetched, internal, row, label_failed>>
    /\ UNCHANGED nonExtractVars

ExtractNext == MainNoKey \/ MainFetchPages \/ EnrichRow \/ FilterAndSave

(***************************************************************************)
(* Python values of the data-preparation code.  A str is Str(s), s the     *)
(* sequence of its characters; a missing cell (NaN) is NaN; a dict is      *)
(* Dict(items), items the sequence of its (key, value) pairs.  The         *)
(* characters are an ordinary one, the double quote, the backslash and the *)
(* newline (a control character); JSON texts also use { } : , space and    *)
(* the letters of the keys.                                                *)
(***************************************************************************)
Str(s) == [t |-> "str", s |-> s, items |-> << >>]
NaN == [t |-> "nan", s |-> << >>, items |-> << >>]
Dict(items) == [t |-> "dict", s |-> << >>, items |-> items]

QUOTE == "\""
BACKSLASH == "\\"
NEWLINE == "\n"

SourceKey == <<"s", "o", "u", "r", "c", "e">>
TextKey == <<"t", "e", "x", "t">>

\* (variant: characters are written without escaping)
EscapeChar_Raw(c) == <<c>>

\* json.dumps of one character of a str (py_encode_basestring_ascii)
EscapeChar(c) ==
    IF c = QUOTE THEN <<BACKSLASH, QUOTE>>
    ELSE IF c = BACKSLASH THEN <<BACKSLASH, BACKSLASH>>
    ELSE IF c = NEWLINE THEN <<BACKSLASH, "n">>
    ELSE <<c>>

RECURSIVE EscapeAll(_)
EscapeAll(s) ==
    IF s = << >> THEN << >> ELSE EscapeChar(Head(s)) \o EscapeAll(Tail(s))

\* json.dumps of a str or of a float nan
DumpsValue(v) ==
    IF v.t = "nan" THEN <<"N", "a", "N">>
    ELSE <<QUOTE>> \o EscapeAll(v.s) \o <<QUOTE>>

\* json.dumps({'source': source, 'text': text}), data_prep.py line 64, with the
\* default separators ", " and ": "
JsonDumps(source, text) ==
    <<"{", QUOTE>> \o SourceKey \o <<QUOTE, ":", " ">> \o DumpsValue(source)
        \o <<",", " ", QUOTE>> \o TextKey \o <<QUOTE, ":", " ">> \o DumpsValue(text)
        \o <<"}">>

(***************************************************************************)
(* json.loads on the texts of the model: objects whose members are strings *)
(* or NaN, strings, NaN.  A parse result is [ok, val, next]: next is the   *)
(* index after the value.                                                  *)
(***************************************************************************)
ParseFail == [ok |-> FALSE, val |-> NaN, next |-> 0]
Parsed(v, n) == [ok |-> TRUE, val |-> v, next |-> n]

RECURSIVE SkipWs(_, _)
SkipWs(txt, i) ==
    IF i <= Len(txt) /\ txt[i] = " " THEN SkipWs(txt, i + 1) ELSE i

\* the characters of a JSON string from index j on, up to the closing quote
RECURSIVE ScanString(_, _, _)
ScanString(txt, j, acc) ==
    IF j > Len(txt) THEN ParseFail
    ELSE IF txt[j] = QUOTE THEN Parsed(Str(acc), j + 1)
    ELSE IF txt[j] = NEWLINE THEN ParseFail
    ELSE IF txt[j] = BACKSLASH
         THEN IF j + 1 > Len(txt) THEN ParseFail
              ELSE IF txt[j + 1] \in {QUOTE, BACKSLASH}
                   THEN ScanString(txt, j + 2, Append(acc, txt[j + 1]))
              ELSE IF txt[j + 1] = "n"
                   THEN ScanString(txt, j + 2, Append(acc, NEWLINE))
              ELSE ParseFail
    ELSE ScanString(txt, j + 1, Append(acc, txt[j]))

ParseScalar(txt, i0) ==
    LET i == SkipWs(txt, i0)
    IN IF i > Len(txt) THEN ParseFail
       ELSE IF txt[i] = QUOTE THEN ScanString(txt, i + 1, << >>)
       ELSE IF i + 2 <= Len(txt) /\ SubSeq(txt, i, i + 2) = <<"N", "a", "N">>
            THEN Parsed(NaN, i + 3)
       ELSE ParseFail

\* the members of an object from index i0 on (after "{" or after ","), up to "}"
RECURSIVE ParseMembers(_, _, _)
ParseMembers(txt, i0, acc) ==
    LET i == SkipWs(txt, i0)
    IN IF i > Len(txt) \/ txt[i] # QUOTE THEN ParseFail
       ELSE LET k == ScanString(txt, i + 1, << >>)
            IN IF ~k.ok THEN ParseFail
               ELSE LET c == SkipWs(txt, k.next)
                    IN IF c > Len(txt) \/ txt[c] # ":" THEN ParseFail
                       ELSE LET v == ParseScalar(txt, c + 1)
                            IN IF ~v.ok THEN ParseFail
                               ELSE LET e == SkipWs(txt, v.next)
                                        items == Append(acc, [key |-> k.val.s,
                                                              val |-> v.val])
                                    IN IF e > Len(txt) THEN ParseFail
                                       ELSE IF txt[e] = "}"
                                            THEN Parsed(Dict(items), e + 1)
                                       ELSE IF txt[e] = ","
                                            THEN ParseMembers(txt, e + 1, items)
                                       ELSE ParseFail

ParseValue(txt, i0) ==
    LET i == SkipWs(txt, i0)
    IN IF i > Len(txt) THEN ParseFail
       ELSE IF txt[i] = "{"
            THEN LET j == SkipWs(txt, i + 1)
                 IN IF j <= Len(txt) /\ txt[j] = "}"
                    THEN Parsed(Dict(<< >>), j + 1)
                    ELSE ParseMembers(txt, i + 1, << >>)
       ELSE ParseScalar(txt, i)

\* json.loads(text): the value, or JSONDecodeError (ok = FALSE) when the text
\* is malformed or followed by extra data
JsonLoads(txt) ==
    LET r == ParseValue(txt, 1)
    IN IF r.ok /\ SkipWs(txt, r.next) = Len(txt) + 1 THEN r ELSE ParseFail

\* dict.get(key, default): the last member with that key wins
RECURSIVE DictGet(_, _, _)
DictGet(items, key, default) ==
    IF items = << >> THEN default
    ELSE IF items[Len(items)].key = key THEN items[Len(items)].val
    ELSE DictGet(SubSeq(items, 1, Len(items) - 1), key, default)

(***************************************************************************)
(* utils/data_prep.py: clean_data_pinecone_schema and the decoding at the  *)
(* head of the row loop of generate_embeddings_and_add_to_df.              *)
(***************************************************************************)
MaxRows == 3            \* rows of the input table

LinkSamples == {NaN, Str(<<"a">>), Str(<<BACKSLASH, QUOTE>>)}
ContentSamples ==
    {NaN, Str(<< >>), Str(<<"a">>), Str(<<QUOTE, BACKSLASH>>), Str(<<"a", NEWLINE>>)}

Digit(i) == <<"0", "1", "2", "3", "4", "5", "6", "7", "8", "9">>[i + 1]

\* str(n) of a natural number: its decimal digits
RECURSIVE Digits(_)
Digits(n) == IF n < 10 THEN <<Digit(n)>> ELSE Digits(n \div 10) \o <<Digit(n % 10)>>

\* (variant: only missing content is dropped, the empty string is kept)
KeepRow_NotnaOnly(r) == r.content.t # "nan"

\* df['content'].notna() & (df['content'] != ''), line 55
KeepRow(r) == r.content.t # "nan" /\ r.content # Str(<< >>)

\* lines 62-65: id as str, tiny_link renamed to source, metadata = json.dumps
CleanRow(r) ==
    [id |-> Str(Digits(r.id)),
     metadata |-> Str(JsonDumps(r.tiny_link, r.content))]

\* clean_data_pinecone_schema, lines 40-69, on a table that has the three
\* required columns
clean_data_pinecone_schema(t) ==
    LET kept == SelectSeq(t, KeepRow)
    IN [i \in 1..Len(kept) |-> CleanRow(kept[i])]

\* generate_embeddings_and_add_to_df, lines 103-119, for one row: what
\* json.loads(row['metadata']) and meta.get('text', '') give.  outcome is
\* "ok", "json_decode" (JSONDecodeError, caught), "missing_text", or
\* "TypeError" / "AttributeError" (not caught by the row loop).
DecodeRow(r) ==
    IF r.metadata.t # "str"
    THEN [outcome |-> "TypeError", meta |-> NaN, text |-> Str(<< >>)]
    ELSE LET p == JsonLoads(r.metadata.s)
         IN IF ~p.ok
            THEN [outcome |-> "json_decode", meta |-> NaN, text |-> Str(<< >>)]
            ELSE IF p.val.t # "dict"
            THEN [outcome |-> "AttributeError", meta |-> p.val, text |-> Str(<< >>)]
            ELSE LET text == DictGet(p.val.items, TextKey, Str(<< >>))
                 IN [outcome |-> IF text.t = "str" /\ text.s = << >>
                                 THEN "missing_text" ELSE "ok",
                     meta |-> p.val, text |-> text]

CleanIdle ==
    /\ table = << >>
    /\ cleaned = << >>
    /\ decoded = << >>
    /\ clean_pc = "decoded"

CleanInit ==
    /\ \E n \in 0..MaxRows :
          table \in [1..n -> {[id |-> i, tiny_link |-> l, content |-> c] :
                                 i \in {1}, l \in LinkSamples, c \in ContentSamples}]
    /\ cleaned = << >>
    /\ decoded = << >>
    /\ clean_pc = "input"

\* the table as read: row i has id i
Numbered(t) == [i \in 1..Len(t) |-> [t[i] EXCEPT !.id = i]]

CallClean ==
    /\ clean_pc = "input"
    /\ cleaned' = clean_data_pinecone_schema(Numbered(table))
    /\ clean_pc' = "cleaned"
    /\ UNCHANGED <<table, decoded>>
    /\ UNCHANGED nonCleanVars

DecodeAll ==
    /\ clean_pc = "cleaned"
    /\ decoded' = [i \in 1..Len(cleaned) |-> DecodeRow(cleaned[i])]
    /\ clean_pc' = "decoded"
    /\ UNCHANGED <<table, cleaned>>
    /\ UNCHANGED nonCleanVars

CleanNext == CallClean \/ DecodeAll

(***************************************************************************)
(* utils/openai_logic.py: get_chat_completion_messages.                    *)
(*                                                                         *)
(* A chat request ends in one of: "ok", "rate_limit" (RateLimitError),     *)
(* "api_connection" (APIConnectionError), "api_429" (another APIError with *)
(* status_code 429), "api_error" (another APIError) or "unknown" (any      *)
(* other exception).  One action is one pass through the while loop: the   *)
(* request and the handler of its outcome, the sleep included.             *)
(***************************************************************************)
chat_max_retries == 3

\* lines 84 and 110, evaluated after retry_count += 1
chat_rate_limit_wait(count) == (2 ^ count) * 5

\* (variant: the wait is computed before retry_count += 1)
chat_connection_wait_BeforeIncrement(count) == 5 * (count - 1)

\* line 97, evaluated after retry_count += 1
chat_connection_wait(count) == 5 * count

ChatIdle ==
    /\ chat_pc = "returned"
    /\ retry_count = 0
    /\ chat_waits = << >>
    /\ chat_kinds = << >>
    /\ chat_ret = "None"

\* lines 71-72
ChatInit ==
    /\ chat_pc = "request"
    /\ retry_count = 0
    /\ chat_waits = << >>
    /\ chat_kinds = << >>
    /\ chat_ret = "None"

ChatReturn(kind, value) ==
    /\ chat_pc' = "returned"
    /\ chat_kinds' = Append(chat_kinds, kind)
    /\ chat_ret' = value
    /\ UNCHANGED <<chat_waits, now>>

\* the three retrying handlers: count, give up beyond max_retries, else sleep
ChatRetry(kind, wait_time, apology) ==
    /\ retry_count' = retry_count + 1
    /\ IF retry_count + 1 > chat_max_retries
       THEN ChatReturn(kind, apology)
       ELSE /\ chat_waits' = Append(chat_waits, wait_time)
            /\ now' = now + wait_time
            /\ chat_kinds' = Append(chat_kinds, kind)
            /\ UNCHANGED <<chat_pc, chat_ret>>

ChatPass == chat_pc = "request" /\ retry_count <= chat_max_retries

ChatUnchanged ==
    /\ UNCHANGED <<error_counts, last_error_time, success_counts, log_lines,
                   last_op, logged>>
    /\ UNCHANGED nonChatVars

\* lines 76-81
ChatOk ==
    /\ ChatPass
    /\ ChatReturn("ok", "content")
    /\ UNCHANGED retry_count
    /\ ChatUnchanged

\* lines 82-93
ChatRateLimitError ==
    /\ ChatPass
    /\ ChatRetry("rate_limit", chat_rate_limit_wait(retry_count + 1), "high_traffic")
    /\ ChatUnchanged

\* lines 95-105
ChatAPIConnectionError ==
    /\ ChatPass
    /\ ChatRetry("api_connection", chat_connection_wait(retry_count + 1),
                 "trouble_connecting")
    /\ ChatUnchanged

\* lines 107-122
ChatAPIError ==
    /\ ChatPass
    /\ \E status_code \in {429, 500} :
          IF status_code = 429
          THEN ChatRetry("api_429", chat_rate_limit_wait(retry_count + 1),
                         "service_busy")
          ELSE /\ ChatReturn("api_error", "encountered_error")
               /\ UNCHANGED retry_count
    /\ ChatUnchanged

\* lines 124-126
ChatException ==
    /\ ChatPass
    /\ ChatReturn("unknown", "something_wrong")
    /\ UNCHANGED retry_count
    /\ ChatUnchanged

ChatNext ==
    ChatOk \/ ChatRateLimitError \/ ChatAPIConnectionError \/ ChatAPIError
        \/ ChatException

(***************************************************************************)
(* utils/data_prep.py: generate_embeddings_and_add_to_df.                  *)
(*                                                                         *)
(* The positions of a call: "call" (entry), "row" (head of the for loop),  *)
(* "while" (head of the retry loop, where should_continue is consulted),   *)
(* "request" (inside the try, before create_embeddings), "returned" and    *)
(* "raised".  An embedding request ends like a chat request.  Time is in   *)
(* whole seconds and advances by the backoff sleeps; the 0.1 s pause       *)
(* before a request is below the resolution of the clock.                  *)
(***************************************************************************)
MaxBatch == 2           \* rows of the DataFrame passed in
MaxFailures == 5        \* failing embedding requests explored in one call

max_retries == 3
rate_limit_threshold == 5
rate_limit_window == 60

MetaSamples ==
    {Str(JsonDumps(Str(<<"a">>), Str(<<"a">>))),    \* as the cleaning writes it
     Str(JsonDumps(Str(<<"a">>), Str(<< >>))),      \* an empty text
     Str(<<"{">>),                                  \* not JSON
     Str(<<"N", "a", "N">>),                        \* JSON, but not an object
     NaN}                                           \* not a str

\* lines 162 and 202, evaluated before retries += 1
rate_limit_wait(n) == (2 ^ n) * 5

\* line 186, evaluated before retries += 1
connection_wait(n) == 5 * n

\* lines 129-133 and 241-245
Tag == [i \in 1..Len(batch) |-> IF values[i] = "list" THEN "success"
                                ELSE "not_processed"]

Failures ==
    LET RECURSIVE Sum(_)
        Sum(i) == IF i = 0 THEN 0
                  ELSE Sum(i - 1)
                         + Cardinality({j \in 1..Len(emb_kinds[i]) :
                                            emb_kinds[i][j] # "ok"})
    IN Sum(Len(batch))

EmbedIdle ==
    /\ batch = << >>
    /\ emb_pc = "returned"
    /\ emb_ret = "None"
    /\ emb_i = 1
    /\ retries = 0
    /\ values = << >>
    /\ embedding_status = << >>
    /\ successful_embeddings = 0
    /\ failed_embeddings = 0
    /\ emb_waits = << >>
    /\ emb_kinds = << >>
    /\ emb_logs = << >>
    /\ counted = << >>

EmbedInit ==
    /\ \E n \in 0..MaxBatch :
          batch \in {[i \in 1..n |-> [id |-> Str(<<Digit(i)>>), metadata |-> f[i]]] :
                        f \in [1..n -> MetaSamples]}
    /\ emb_pc = "call"
    /\ emb_ret = "None"
    /\ emb_i = 1
    /\ retries = 0
    /\ values = << >>
    /\ embedding_status = << >>
    /\ successful_embeddings = 0
    /\ failed_embeddings = 0
    /\ emb_waits = << >>
    /\ emb_kinds = << >>
    /\ emb_logs = << >>
    /\ counted = << >>

EmbedTrackerUnchanged ==
    UNCHANGED <<error_counts, last_error_time, success_counts, log_lines, now,
                last_op, logged>>

\* an exception leaves the function: no DataFrame is returned
EmbedRaise(exception) ==
    /\ emb_pc' = "raised"
    /\ emb_ret' = exception
    /\ UNCHANGED <<batch, emb_i, retries, values, embedding_status,
                   successful_embeddings, failed_embeddings, emb_waits, counted, now>>

\* (variant: a row given up is not counted)
EmbedRowFailed_NotCounted(r) ==
    /\ failed_embeddings' = failed_embeddings
    /\ counted' = [counted EXCEPT ![emb_i] = "failed"]
    /\ emb_i' = emb_i + 1
    /\ emb_pc' = "row"
    /\ retries' = r
    /\ UNCHANGED <<batch, emb_ret, values, embedding_status, successful_embeddings,
                   emb_waits, now>>

\* failed_embeddings += 1, then continue / break: on to the next row
EmbedRowFailed(r) ==
    /\ failed_embeddings' = failed_embeddings + 1
    /\ counted' = [counted EXCEPT ![emb_i] = "failed"]
    /\ emb_i' = emb_i + 1
    /\ emb_pc' = "row"
    /\ retries' = r
    /\ UNCHANGED <<batch, emb_ret, values, embedding_status, successful_embeddings,
                   emb_waits, now>>

\* (variant: the retry is not counted)
EmbedSleep_NotCounted(wait_time) ==
    /\ retries' = retries
    /\ emb_waits' = [emb_waits EXCEPT ![emb_i] = Append(@, wait_time)]
    /\ now' = now + wait_time
    /\ emb_pc' = "while"
    /\ UNCHANGED <<batch, emb_ret, emb_i, values, embedding_status,
                   successful_embeddings, failed_embeddings, counted>>

\* retries += 1 and time.sleep(wait_time), then back to the head of the while
EmbedSleep(wait_time) ==
    /\ retries' = retries + 1
    /\ emb_waits' = [emb_waits EXCEPT ![emb_i] = Append(@, wait_time)]
    /\ now' = now + wait_time
    /\ emb_pc' = "while"
    /\ UNCHANGED <<batch, emb_ret, emb_i, values, embedding_status,
                   successful_embeddings, failed_embeddings, counted>>

\* error_tracker.log_error(error_type, ...) as called from the row loop
EmbedLog(error_type, appended) ==
    /\ log_error(error_type, appended)
    /\ UNCHANGED <<success_counts, last_op>>

\* lines 76-100
EmbedCall ==
    /\ emb_pc = "call"
    /\ IF batch = << >>
       THEN /\ emb_pc' = "returned"
            /\ emb_ret' = "empty_frame"
            /\ UNCHANGED <<values, emb_waits, emb_kinds, emb_logs, counted>>
       ELSE /\ emb_pc' = "row"
            /\ values' = [i \in 1..Len(batch) |-> "None"]
            /\ emb_waits' = [i \in 1..Len(batch) |-> << >>]
            /\ emb_kinds' = [i \in 1..Len(batch) |-> << >>]
            /\ emb_logs' = [i \in 1..Len(batch) |-> 0]
            /\ counted' = [i \in 1..Len(batch) |-> "none"]
            /\ UNCHANGED emb_ret
    /\ UNCHANGED <<batch, emb_i, retries, embedding_status, successful_embeddings,
                   failed_embeddings>>
    /\ EmbedTrackerUnchanged
    /\ UNCHANGED nonEmbedVars

\* lines 102-122: the head of the for loop and the decoding of the row
EmbedRow ==
    /\ emb_pc = "row"
    /\ emb_i <= Len(batch)
    /\ LET d == DecodeRow(batch[emb_i])
       IN CASE d.outcome \in {"TypeError", "AttributeError"} ->
                 /\ EmbedRaise(d.outcome)
                 /\ EmbedTrackerUnchanged
            [] d.outcome \in {"json_decode", "missing_text"} ->
                 \E appended \in BOOLEAN :
                     /\ EmbedLog(d.outcome, appended)
                     /\ IF appended THEN EmbedRowFailed(retries)
                        ELSE EmbedRaise("OSError")
            [] OTHER ->
                 /\ retries' = 0
                 /\ emb_pc' = "while"
                 /\ UNCHANGED <<batch, emb_ret, emb_i, values, embedding_status,
                                successful_embeddings, failed_embeddings, emb_waits,
                                counted>>
                 /\ EmbedTrackerUnchanged
    /\ UNCHANGED <<emb_kinds, emb_logs>>
    /\ UNCHANGED nonEmbedVars

\* lines 123-136: the head of the while loop, where the tracker is consulted
EmbedWhile ==
    /\ emb_pc = "while"
    /\ IF retries > max_retries
       THEN /\ emb_i' = emb_i + 1
            /\ emb_pc' = "row"
            /\ UNCHANGED <<emb_ret, embedding_status, error_counts>>
       ELSE /\ error_counts' = should_continue_counts("rate_limit", rate_limit_threshold,
                                                      rate_limit_window)
            /\ IF should_continue_result("rate_limit", rate_limit_threshold,
                                         rate_limit_window)
               THEN /\ emb_pc' = "request"
                    /\ UNCHANGED <<emb_ret, embedding_status>>
               ELSE /\ emb_pc' = "returned"
                    /\ emb_ret' = "df"
                    /\ embedding_status' = Tag
            /\ UNCHANGED emb_i
    /\ UNCHANGED <<batch, retries, values, successful_embeddings, failed_embeddings,
                   emb_waits, emb_kinds, emb_logs, counted>>
    /\ UNCHANGED <<last_error_time, success_counts, log_lines, now, last_op, logged>>
    /\ UNCHANGED nonEmbedVars

\* the request is made and fails: the bound on failures, and len(text) in
\* create_embeddings, which raises TypeError unless text is a str
EmbedFails(kind) ==
    /\ emb_pc = "request"
    /\ Failures < MaxFailures
    /\ kind # "unknown" => DecodeRow(batch[emb_i]).text.t = "str"
    /\ emb_kinds' = [emb_kinds EXCEPT ![emb_i] = Append(@, kind)]

\* lines 138-151
EmbedOk ==
    /\ emb_pc = "request"
    /\ DecodeRow(batch[emb_i]).text.t = "str"
    /\ emb_kinds' = [emb_kinds EXCEPT ![emb_i] = Append(@, "ok")]
    /\ values' = [values EXCEPT ![emb_i] = "list"]
    /\ log_success("embedding_generation")
    /\ successful_embeddings' = successful_embeddings + 1
    /\ counted' = [counted EXCEPT ![emb_i] = "success"]
    /\ emb_i' = emb_i + 1
    /\ emb_pc' = "row"
    /\ UNCHANGED <<batch, emb_ret, retries, embedding_status, failed_embeddings,
                   emb_waits, emb_logs>>
    /\ UNCHANGED <<error_counts, last_error_time, log_lines, now, last_op, logged>>
    /\ UNCHANGED nonEmbedVars

\* lines 153-175
EmbedRateLimitError ==
    /\ EmbedFails("rate_limit")
    /\ emb_logs' = [emb_logs EXCEPT ![emb_i] = @ + 1]
    /\ \E appended \in BOOLEAN :
          /\ EmbedLog("rate_limit", appended)
          /\ IF ~appended THEN EmbedRaise("OSError")
             ELSE IF retries + 1 > max_retries THEN EmbedRowFailed(retries + 1)
             ELSE EmbedSleep(rate_limit_wait(retries))
    /\ UNCHANGED nonEmbedVars

\* lines 177-194
EmbedAPIConnectionError ==
    /\ EmbedFails("api_connection")
    /\ UNCHANGED emb_logs
    /\ \E appended \in BOOLEAN :
          /\ EmbedLog("api_connection", appended)
          /\ IF ~appended THEN EmbedRaise("OSError")
             ELSE IF retries < max_retries THEN EmbedSleep(connection_wait(retries))
             ELSE EmbedRowFailed(retries)
    /\ UNCHANGED nonEmbedVars

\* lines 196-223
EmbedAPIError ==
    /\ \E status_code \in {429, 500} :
          IF status_code = 429
          THEN /\ EmbedFails("api_429")
               /\ IF retries + 1 > max_retries THEN EmbedRowFailed(retries + 1)
                  ELSE EmbedSleep(rate_limit_wait(retries))
               /\ UNCHANGED <<error_counts, last_error_time, success_counts, log_lines,
                              last_op, logged>>
          ELSE /\ EmbedFails("api_error")
               /\ \E appended \in BOOLEAN :
                     /\ EmbedLog("api_error", appended)
                     /\ IF appended THEN EmbedRowFailed(retries)
                        ELSE EmbedRaise("OSError")
    /\ UNCHANGED emb_logs
    /\ UNCHANGED nonEmbedVars

\* lines 225-234
EmbedException ==
    /\ EmbedFails("unknown")
    /\ UNCHANGED emb_logs
    /\ \E appended \in BOOLEAN :
          /\ EmbedLog("unknown", appended)
          /\ IF appended THEN EmbedRowFailed(retries) ELSE EmbedRaise("OSError")
    /\ UNCHANGED nonEmbedVars

\* lines 236-252: after the last row
EmbedFinish ==
    /\ emb_pc = "row"
    /\ emb_i > Len(batch)
    /\ emb_pc' = "returned"
    /\ emb_ret' = "df"
    /\ embedding_status' = Tag
    /\ UNCHANGED <<batch, emb_i, retries, values, successful_embeddings,
                   failed_embeddings, emb_waits, emb_kinds, emb_logs, counted>>
    /\ EmbedTrackerUnchanged
    /\ UNCHANGED nonEmbedVars

EmbedNext ==
    EmbedCall \/ EmbedRow \/ EmbedWhile \/ EmbedOk \/ EmbedRateLimitError
        \/ EmbedAPIConnectionError \/ EmbedAPIError \/ EmbedException \/ EmbedFinish

(***************************************************************************)
(* utils/confluence_api.py: api_call in detail.                            *)
(*                                                                         *)
(* requests.get either fails at the network level (a RequestException) or  *)
(* yields a response with a status code and a body.  response.json() on a  *)
(* body that is not JSON raises requests.exceptions.JSONDecodeError, which *)
(* is a RequestException from requests 2.27 on and a plain ValueError      *)
(* before; the repository pins no version, so both builds are modelled.    *)
(***************************************************************************)
StatusCodes == {200, 201, 204, 301, 400, 401, 403, 404, 429, 500, 503}

NotJson == [kind |-> "not_json", n |-> 0, first |-> 0, next |-> FALSE]

Bodies ==
    {NotJson, NoResultsBody}
        \cup {PageResponse(1, n, nxt) : n \in 0..MaxPerPage, nxt \in BOOLEAN}

\* lines 16-35
api_call_outcome(network_ok, status_code, body, caught) ==
    IF ~network_ok THEN [kind |-> "None", body |-> NoneResponse]
    ELSE IF status_code = 200
    THEN IF body # NotJson THEN [kind |-> "json", body |-> body]
         ELSE IF caught THEN [kind |-> "None", body |-> NoneResponse]
         ELSE [kind |-> "raised", body |-> NoneResponse]
    ELSE [kind |-> "None", body |-> NoneResponse]

NoCall == [network_ok |-> TRUE, status_code |-> 200, body |-> NoResultsBody]

ApiIdle ==
    /\ api_in = NoCall
    /\ json_error_caught = TRUE
    /\ api_pc = "done"
    /\ api_ret = [kind |-> "json", body |-> NoResultsBody]

ApiInit ==
    /\ api_in \in [network_ok : BOOLEAN, status_code : StatusCodes, body : Bodies]
    /\ json_error_caught \in BOOLEAN
    /\ api_pc = "call"
    /\ api_ret = [kind |-> "None", body |-> NoneResponse]

ApiCall ==
    /\ api_pc = "call"
    /\ api_ret' = api_call_outcome(api_in.network_ok, api_in.status_code, api_in.body,
                                   json_error_caught)
    /\ api_pc' = "done"
    /\ UNCHANGED <<api_in, json_error_caught>>
    /\ UNCHANGED nonApiVars

ApiNext == ApiCall

(***************************************************************************)
(* manage_pinecone_index.py: create_pinecone_index, delete_pinecone_index  *)
(* and reset_pinecone_index, called one after the other by one caller.     *)
(*                                                                         *)
(* The service holds or does not hold the index name; a create or delete   *)
(* request it accepted becomes visible in the listing at some later time.  *)
(* Every service call (the client constructor, list_indexes, create_index, *)
(* delete_index) either succeeds or raises.  A record of a call is         *)
(* [fn, caller, listed, requests, ret, delete_success, create_success]:    *)
(* listed is what the call's first listing showed ("unknown" if none).     *)
(***************************************************************************)
MaxCalls == 2           \* calls of the utility made by the caller
MaxPolls == 1           \* sleeps of one polling loop

CallRecord(fn, caller) ==
    [fn |-> fn, caller |-> caller, listed |-> "unknown", requests |-> << >>,
     ret |-> "None", delete_success |-> "None", create_success |-> "None"]

IndexIdle ==
    /\ api_key = TRUE
    /\ index_listed = FALSE
    /\ index_pending = "none"
    /\ ix_fn = "none"
    /\ ix_pc = "idle"
    /\ ix_reset = "none"
    /\ ix_cur = CallRecord("none", "main")
    /\ ix_reset_rec = CallRecord("none", "main")
    /\ ix_log = << >>
    /\ ix_polls = 0
    /\ ix_calls = MaxCalls

IndexInit ==
    /\ api_key \in BOOLEAN
    /\ index_listed \in BOOLEAN
    /\ index_pending = "none"
    /\ ix_fn = "none"
    /\ ix_pc = "idle"
    /\ ix_reset = "none"
    /\ ix_cur = CallRecord("none", "main")
    /\ ix_reset_rec = CallRecord("none", "main")
    /\ ix_log = << >>
    /\ ix_polls = 0
    /\ ix_calls = 0

\* the caller invokes create_pinecone_index or delete_pinecone_index
CallCreateOrDelete ==
    /\ ix_pc = "idle"
    /\ ix_calls < MaxCalls
    /\ \E fn \in {"create", "delete"} :
          /\ ix_fn' = fn
          /\ ix_cur' = CallRecord(fn, "main")
    /\ ix_pc' = "check"
    /\ ix_calls' = ix_calls + 1
    /\ UNCHANGED <<api_key, index_listed, index_pending, ix_reset, ix_reset_rec,
                   ix_log, ix_polls>>
    /\ UNCHANGED nonIndexVars

\* reset_pinecone_index, lines 101-106: up to the call of delete_pinecone_index
CallReset ==
    /\ ix_pc = "idle"
    /\ ix_calls < MaxCalls
    /\ ix_reset' = "delete"
    /\ ix_reset_rec' = CallRecord("reset", "main")
    /\ ix_fn' = "delete"
    /\ ix_cur' = CallRecord("delete", "reset")
    /\ ix_pc' = "check"
    /\ ix_calls' = ix_calls + 1
    /\ UNCHANGED <<api_key, index_listed, index_pending, ix_log, ix_polls>>
    /\ UNCHANGED nonIndexVars

\* (variant: reset goes on to create after a failed delete)
reset_aborts_Never(delete_success) == FALSE

\* reset_pinecone_index line 107: `if not delete_success`
reset_aborts(delete_success) == delete_success = "False"

\* create/delete returns (rec.ret): back in the caller, or in reset_pinecone_index
\* lines 107-121
IndexReturn(rec) ==
    /\ ix_polls' = 0
    /\ IF ix_reset = "none"
       THEN /\ ix_log' = Append(ix_log, rec)
            /\ ix_fn' = "none"
            /\ ix_pc' = "idle"
            /\ ix_cur' = rec
            /\ UNCHANGED <<ix_reset, ix_reset_rec>>
       ELSE IF ix_reset = "delete"
       THEN LET r == [ix_reset_rec EXCEPT !.delete_success = rec.ret,
                                          !.requests = @ \o rec.requests]
            IN IF reset_aborts(rec.ret)
               THEN /\ ix_log' = ix_log \o <<rec, [r EXCEPT !.ret = "False"]>>
                    /\ ix_reset_rec' = [r EXCEPT !.ret = "False"]
                    /\ ix_reset' = "none"
                    /\ ix_fn' = "none"
                    /\ ix_pc' = "idle"
                    /\ ix_cur' = rec
               ELSE /\ ix_log' = Append(ix_log, rec)
                    /\ ix_reset_rec' = r
                    /\ ix_reset' = "create"
                    /\ ix_fn' = "create"
                    /\ ix_pc' = "check"
                    /\ ix_cur' = CallRecord("create", "reset")
       ELSE LET r == [ix_reset_rec EXCEPT !.create_success = rec.ret,
                                          !.requests = @ \o rec.requests,
                                          !.ret = rec.ret]
            IN /\ ix_log' = ix_log \o <<rec, r>>
               /\ ix_reset_rec' = r
               /\ ix_reset' = "none"
               /\ ix_fn' = "none"
               /\ ix_pc' = "idle"
               /\ ix_cur' = rec

IndexServiceUnchanged == UNCHANGED <<api_key, index_listed, index_pending, ix_calls>>

\* (variant: the accepted request counts as done, without polling the listing)
IndexSettled_Accepted == (ix_fn = "create") = index_listed \/ index_pending = ix_fn

\* (variant: the existence test is inverted)
IndexSettled_Inverted == (ix_fn = "delete") = index_listed

\* the name is where the function wants it: listed for create, not for delete
IndexSettled == (ix_fn = "create") = index_listed

\* create_pinecone_index lines 29-54, delete_pinecone_index lines 71-86: the
\* key, the client, the listing and, if needed, the request
IndexCheck ==
    /\ ix_pc = "check"
    /\ \E client_ok, request_ok \in BOOLEAN :
          IF ~api_key \/ ~client_ok
          THEN /\ IndexReturn([ix_cur EXCEPT !.ret = "False"])
               /\ IndexServiceUnchanged
          ELSE LET seen == [ix_cur EXCEPT !.listed = BoolStr(index_listed)]
                   req == [seen EXCEPT !.requests = Append(@, ix_fn)]
               IN IF IndexSettled
                  THEN /\ IndexReturn([seen EXCEPT !.ret = "True"])
                       /\ IndexServiceUnchanged
                  ELSE IF ~request_ok
                  THEN /\ IndexReturn([req EXCEPT !.ret = "False"])
                       /\ IndexServiceUnchanged
                  ELSE /\ index_pending' = ix_fn
                       /\ ix_pc' = "wait"
                       /\ ix_cur' = req
                       /\ UNCHANGED <<api_key, index_listed, ix_calls, ix_fn, ix_reset,
                                      ix_reset_rec, ix_log, ix_polls>>
    /\ UNCHANGED nonIndexVars

\* lines 56-62 and 88-94: one pass of the polling loop
IndexWait ==
    /\ ix_pc = "wait"
    /\ \E list_ok \in BOOLEAN :
          IF ~list_ok THEN IndexReturn([ix_cur EXCEPT !.ret = "False"])
          ELSE IF IndexSettled THEN IndexReturn([ix_cur EXCEPT !.ret = "True"])
          ELSE /\ ix_polls < MaxPolls
               /\ ix_polls' = ix_polls + 1
               /\ UNCHANGED <<ix_fn, ix_pc, ix_reset, ix_cur, ix_reset_rec, ix_log>>
    /\ IndexServiceUnchanged
    /\ UNCHANGED nonIndexVars

\* the service makes an accepted request visible in the listing
ServiceSettle ==
    /\ index_pending # "none"
    /\ index_listed' = (index_pending = "create")
    /\ index_pending' = "none"
    /\ UNCHANGED <<api_key, ix_fn, ix_pc, ix_reset, ix_cur, ix_reset_rec, ix_log,
                   ix_polls, ix_calls>>
    /\ UNCHANGED nonIndexVars

IndexNext == CallCreateOrDelete \/ CallReset \/ IndexCheck \/ IndexWait \/ ServiceSettle

(***************************************************************************)
(* get_space_id_and_pages.py: main.                                        *)
(*                                                                         *)
(* The spaces lookup ends in one of: "api_none" (api_call returned None),  *)
(* "no_results" (a body without results), "not_listed" (no space with the  *)
(* key), "no_id" (the space has no id field), "found" (with an id, which   *)
(* may be the empty string) or "raised" (api_call raised, see api_call in  *)
(* detail).  An uncaught exception ends the process with exit code 1.      *)
(***************************************************************************)
MaxExportResponses == 2     \* page-list responses the service holds for the CLI

ExportLimits == {1, 3, 25, 150}

\* every sequence of page-list responses the CLI may be served
ExportResponseSeqs == {rs \in ResponseSeqs : Len(rs) <= MaxExportResponses}
SpaceIds == {"", "7"}
ApiMaxLimit == 100

SpacesLookups ==
    {[kind |-> k, id |-> "None"] : k \in {"api_none", "no_results", "not_listed",
                                          "no_id", "raised"}}
        \cup {[kind |-> "found", id |-> i] : i \in SpaceIds}

\* get_space_id_by_key, confluence_api.py lines 70-91, on the lookup's outcome
space_id_of(lookup) == IF lookup.kind = "found" THEN lookup.id ELSE "None"

\* (variant: the program goes on without an id)
ExitsUnresolved_Never(space_id) == FALSE

\* line 27: `if not space_id`
ExitsUnresolved(space_id) == space_id \in {"None", ""}

\* (variant: the cap is not applied)
Min_Uncapped(a, b) == a

Min(a, b) == IF a < b THEN a ELSE b

ExportIdle ==
    /\ exp_spaces = [kind |-> "api_none", id |-> "None"]
    /\ exp_served = << >>
    /\ exp_limit = 25
    /\ exp_pc = "exited"
    /\ exp_space_id = "None"
    /\ exp_start = 0
    /\ exp_all_pages = << >>
    /\ exp_requests = << >>
    /\ exp_file = NoFile
    /\ exit_code = 1

ExportInit ==
    /\ exp_spaces \in SpacesLookups
    /\ exp_served \in ExportResponseSeqs
    /\ exp_limit \in ExportLimits
    /\ exp_pc = "resolve"
    /\ exp_space_id = "None"
    /\ exp_start = 0
    /\ exp_all_pages = << >>
    /\ exp_requests = << >>
    /\ exp_file = NoFile
    /\ exit_code = "running"

ExportExit(code) ==
    /\ exp_pc' = "exited"
    /\ exit_code' = code

\* lines 23-37
ExportResolve ==
    /\ exp_pc = "resolve"
    /\ IF exp_spaces.kind = "raised"
       THEN ExportExit(1) /\ UNCHANGED exp_space_id
       ELSE /\ exp_space_id' = space_id_of(exp_spaces)
            /\ IF ExitsUnresolved(space_id_of(exp_spaces))
               THEN ExportExit(1)
               ELSE exp_pc' = "loop" /\ UNCHANGED exit_code
    /\ UNCHANGED <<exp_spaces, exp_served, exp_limit, exp_start, exp_all_pages,
                   exp_requests, exp_file>>
    /\ UNCHANGED nonExportVars

\* lines 39-57: one pass of the loop
ExportLoop ==
    /\ exp_pc = "loop"
    /\ exp_requests' = Append(exp_requests, [start |-> exp_start,
                                             limit |-> Min(exp_limit, ApiMaxLimit)])
    /\ \E outcome \in {"ok", "none", "raised"} :
          LET k == Len(exp_requests) + 1
              body == IF k <= Len(exp_served) THEN exp_served[k]
                      ELSE PageResponse(k, 0, FALSE)
              pages_data == api_call(outcome = "ok", body)
          IN IF outcome = "raised"
             THEN ExportExit(1) /\ UNCHANGED <<exp_start, exp_all_pages>>
             ELSE /\ UNCHANGED exit_code
                  /\ IF LacksResults(pages_data) \/ pages_data.results = << >>
                     THEN exp_pc' = "display" /\ UNCHANGED <<exp_start, exp_all_pages>>
                     ELSE /\ exp_all_pages' = exp_all_pages \o pages_data.results
                          /\ IF Len(exp_all_pages \o pages_data.results) >= exp_limit
                                \/ LacksNext(pages_data)
                             THEN exp_pc' = "display" /\ UNCHANGED exp_start
                             ELSE /\ exp_start' = exp_start + Len(pages_data.results)
                                  /\ UNCHANGED exp_pc
    /\ UNCHANGED <<exp_spaces, exp_served, exp_limit, exp_space_id, exp_file>>
    /\ UNCHANGED nonExportVars

\* lines 59-84: the table is saved when there is a page; to_csv may raise
ExportDisplay ==
    /\ exp_pc = "display"
    /\ IF exp_all_pages = << >>
       THEN ExportExit(0) /\ UNCHANGED exp_file
       ELSE \E write_ok \in BOOLEAN :
               IF write_ok
               THEN /\ exp_file' = [written |-> TRUE, rows |-> exp_all_pages]
                    /\ ExportExit(0)
               ELSE ExportExit(1) /\ UNCHANGED exp_file
    /\ UNCHANGED <<exp_spaces, exp_served, exp_limit, exp_space_id, exp_start,
                   exp_all_pages, exp_requests>>
    /\ UNCHANGED nonExportVars

ExportNext == ExportResolve \/ ExportLoop \/ ExportDisplay

(***************************************************************************)
(* run_automated_pipeline.py: run_command and main.                        *)
(*                                                                         *)
(* subprocess.run blocks until the child has exited; the start and the     *)
(* exit of a child are two steps of the model.  Spawning can fail with an  *)
(* OSError, which run_command does not catch.                              *)
(***************************************************************************)
ExitCodes == {0, 1, 2}
DataNames == {"space_pages.csv", "confluence_pages.csv", "notes.txt"}

\* file.endswith(".csv"), line 59
CsvNames == {"space_pages.csv", "confluence_pages.csv"}

\* (variant: the exit code of the child is ignored)
run_command_result_Ignored(code) == TRUE

\* run_command, lines 14-22: check=True raises CalledProcessError on a
\* non-zero exit code
run_command_result(code) == code = 0

PipelineIdle ==
    /\ pl_space_key = FALSE
    /\ pl_rag_exists = FALSE
    /\ pl_files = {}
    /\ pl_pc = "done"
    /\ pl_running = {}
    /\ pl_events = << >>
    /\ pl_listed = [printed |-> FALSE, names |-> {}]

PipelineInit ==
    /\ pl_space_key \in BOOLEAN
    /\ pl_rag_exists \in BOOLEAN
    /\ pl_files \in SUBSET DataNames
    /\ pl_pc = "start"
    /\ pl_running = {}
    /\ pl_events = << >>
    /\ pl_listed = [printed |-> FALSE, names |-> {}]

PipelineFixed == UNCHANGED <<pl_space_key, pl_rag_exists>>

\* subprocess.run, line 15, up to the start of the child
StartStep(step) ==
    \E spawn_ok \in BOOLEAN :
        IF spawn_ok
        THEN /\ pl_running' = pl_running \cup {step}
             /\ pl_events' = Append(pl_events, [step |-> step, what |-> "start", code |-> 0])
             /\ pl_pc' = IF step = 1 THEN "run1" ELSE IF step = 2 THEN "run2" ELSE "run3"
        ELSE /\ pl_pc' = "crashed"
             /\ UNCHANGED <<pl_running, pl_events>>

\* lines 24-40: the key check and the start of step 1
PipelineStart ==
    /\ pl_pc = "start"
    /\ IF ~pl_space_key
       THEN pl_pc' = "done" /\ UNCHANGED <<pl_running, pl_events>>
       ELSE StartStep(1)
    /\ UNCHANGED <<pl_files, pl_listed>>
    /\ PipelineFixed
    /\ UNCHANGED nonPipelineVars

\* the files a step writes into ./data
Outputs(step) ==
    IF step = 1 THEN {"space_pages.csv"}
    ELSE IF step = 2 THEN {"confluence_pages.csv"}
    ELSE {}

\* run_command lines 15-22 and the caller's test of its result (lines 40-42,
\* 46-48, 53-54): the child exits and main goes on, stops, or skips to the end
PipelineStepExit ==
    /\ pl_pc \in {"run1", "run2", "run3"}
    /\ LET step == IF pl_pc = "run1" THEN 1 ELSE IF pl_pc = "run2" THEN 2 ELSE 3
       IN \E code \in ExitCodes, written \in SUBSET Outputs(step) :
             /\ pl_running' = pl_running \ {step}
             /\ pl_events' = Append(pl_events,
                                    [step |-> step, what |-> "exit", code |-> code])
             /\ pl_files' = pl_files \cup written
             /\ pl_pc' = IF step = 3 THEN "listing"
                         ELSE IF ~run_command_result(code) THEN "done"
                         ELSE IF step = 1 THEN "start2" ELSE "check3"
    /\ UNCHANGED pl_listed
    /\ PipelineFixed
    /\ UNCHANGED nonPipelineVars

\* lines 44-46
PipelineStart2 ==
    /\ pl_pc = "start2"
    /\ StartStep(2)
    /\ UNCHANGED <<pl_files, pl_listed>>
    /\ PipelineFixed
    /\ UNCHANGED nonPipelineVars

\* lines 50-53
PipelineCheck3 ==
    /\ pl_pc = "check3"
    /\ IF pl_rag_exists
       THEN StartStep(3)
       ELSE pl_pc' = "listing" /\ UNCHANGED <<pl_running, pl_events>>
    /\ UNCHANGED <<pl_files, pl_listed>>
    /\ PipelineFixed
    /\ UNCHANGED nonPipelineVars

\* lines 56-61
PipelineListing ==
    /\ pl_pc = "listing"
    /\ pl_listed' = [printed |-> TRUE, names |-> pl_files \cap CsvNames]
    /\ pl_pc' = "done"
    /\ UNCHANGED <<pl_files, pl_running, pl_events>>
    /\ PipelineFixed
    /\ UNCHANGED nonPipelineVars

PipelineNext ==
    PipelineStart \/ PipelineStepExit \/ PipelineStart2 \/ PipelineCheck3
        \/ PipelineListing

(***************************************************************************)
(* app_pinecone_openai.py: one call of main(query).                        *)
(*                                                                         *)
(* main runs in one thread; generate_embeddings_and_add_to_df is the call  *)
(* modelled above, started by the batch loop on its slice of df and left   *)
(* when it returned or raised.  utils/pinecone_logic.py is not part of the *)
(* sources: get_pinecone_index, upsert_data and index.query are calls that *)
(* either give their result or raise.  Strings are sequences of pieces, so *)
(* that concatenation and join are computed.  batch_pause_time is counted  *)
(* in half seconds; the clock of the tracker shows whole seconds, so a     *)
(* sleep of p half seconds moves it by p/2 rounded either way.             *)
(***************************************************************************)
MaxRagRows == 3         \* rows of ./data/confluence_pages.csv
batch_size == 2         \* rows of one batch (25 in the code, scaled with MaxRagRows)

batch_rate_limit_threshold == 10
batch_rate_limit_window == 60
top_k == 3

KeyValues == {"None", "", "sk"}

\* (variant: only an unset variable counts, the empty string passes)
not_set_NoneOnly(value) == value = "None"

\* not os.getenv(...), lines 41 and 46
not_set(value) == value \in {"None", ""}

Halves(seconds) == 2 * seconds

Max(a, b) == IF a > b THEN a ELSE b

Call(fn, arg) == [fn |-> fn, arg |-> arg]

RagTables ==
    {[i \in 1..n |-> [id |-> i, tiny_link |-> Str(<<"a">>), content |-> Str(<<"a">>)]] :
        n \in 0..MaxRagRows}

\* import_csv, data_prep.py lines 11-37: the rows read, or the frame passed in
import_csv(frame, csv_file) == IF csv_file.exists THEN csv_file.rows ELSE frame

MatchSamples ==
    {[source |-> "a", score |-> "0.9"], [source |-> "b", score |-> "0.8"],
     [source |-> "c", score |-> "0.7"]}

\* what index.query(top_k=3) may return: at most top_k distinct matches
MatchSeqs ==
    UNION {{m \in [1..n -> MatchSamples] : \A i, j \in 1..n : m[i] = m[j] => i = j} :
              n \in 0..top_k}

ChatResponses ==
    {<<r>> : r \in {"content", "high_traffic", "trouble_connecting", "service_busy",
                    "encountered_error", "something_wrong"}}

\* (variant: the matches are walked last to first)
extract_info_Reversed(data) ==
    [i \in 1..Len(data) |-> <<data[Len(data) + 1 - i].source, data[Len(data) + 1 - i].score>>]

\* extract_info, lines 16-22
extract_info(data) == [i \in 1..Len(data) |-> <<data[i].source, data[i].score>>]

\* "\n".join(lines)
RECURSIVE Join(_, _)
Join(lines, sep) ==
    IF lines = << >> THEN << >>
    ELSE IF Len(lines) = 1 THEN lines[1]
    ELSE lines[1] \o <<sep>> \o Join(Tail(lines), sep)

\* lines 195-202
final_output(response, res) ==
    LET extracted_info == extract_info(res)
        validated_info ==
            [k \in 1..Len(extracted_info) |->
                <<"Source: ", extracted_info[k][1], "    Score: ", extracted_info[k][2]>>]
    IN response \o <<"\n\n">> \o Join(validated_info, NEWLINE)

Running == [kind |-> "running", text |-> << >>]

RagIdle ==
    /\ rag_pinecone_key = "None"
    /\ rag_openai_key = "None"
    /\ rag_csv = [exists |-> FALSE, rows |-> << >>]
    /\ rag_pc = "returned"
    /\ rag_index = "None"
    /\ rag_df = << >>
    /\ rag_i = 0
    /\ processed_df = << >>
    /\ batch_pause_time = Halves(2)
    /\ rag_start_time = 0
    /\ rag_calls = << >>
    /\ rag_embedded = << >>
    /\ rag_upserted = [called |-> FALSE, rows |-> << >>]
    /\ rag_res = << >>
    /\ rag_raised = "None"
    /\ rag_ret = Running

RagInit ==
    /\ rag_pinecone_key \in KeyValues
    /\ rag_openai_key \in KeyValues
    /\ rag_csv \in {[exists |-> FALSE, rows |-> << >>]}
                      \cup {[exists |-> TRUE, rows |-> t] : t \in RagTables}
    /\ rag_pc = "main"
    /\ rag_index = "None"
    /\ rag_df = << >>
    /\ rag_i = 0
    /\ processed_df = << >>
    /\ batch_pause_time = Halves(2)
    /\ rag_start_time = 0
    /\ rag_calls = << >>
    /\ rag_embedded = << >>
    /\ rag_upserted = [called |-> FALSE, rows |-> << >>]
    /\ rag_res = << >>
    /\ rag_raised = "None"
    /\ rag_ret = Running

RagEnvUnchanged == UNCHANGED <<rag_pinecone_key, rag_openai_key, rag_csv>>

\* (variant: without the handler of lines 214-217 what the logging raises
\* leaves main)
RagReturn_Propagates(kind, text) ==
    IF kind = "unexpected_error"
    THEN rag_pc' = "raised" /\ UNCHANGED rag_ret
    ELSE /\ rag_ret' = [kind |-> kind, text |-> text]
         /\ rag_pc' = "returned"

\* return <string>
RagReturn(kind, text) ==
    /\ rag_ret' = [kind |-> kind, text |-> text]
    /\ rag_pc' = "returned"

\* error_tracker.log_error(error_type, ...) as called from main
RagLog(error_type, appended) ==
    /\ log_error(error_type, appended)
    /\ UNCHANGED <<success_counts, last_op>>

\* time.sleep(batch_pause_time)
RagSleep(halves) == now' \in {now + (halves \div 2), now + ((halves + 1) \div 2)}

MaxPauseBatches == 4    \* batches of the run that follows the pause

\* a CSV of MaxPauseBatches full batches
PauseTable ==
    [i \in 1..(MaxPauseBatches * batch_size) |->
        [id |-> i, tiny_link |-> Str(<<"a">>), content |-> Str(<<"a">>)]]

\* a request with both keys set and the CSV above
RagPauseInit ==
    /\ rag_pinecone_key = "sk"
    /\ rag_openai_key = "sk"
    /\ rag_csv = [exists |-> TRUE, rows |-> PauseTable]
    /\ rag_pc = "main"
    /\ rag_index = "None"
    /\ rag_df = << >>
    /\ rag_i = 0
    /\ processed_df = << >>
    /\ batch_pause_time = Halves(2)
    /\ rag_start_time = 0
    /\ rag_calls = << >>
    /\ rag_embedded = << >>
    /\ rag_upserted = [called |-> FALSE, rows |-> << >>]
    /\ rag_res = << >>
    /\ rag_raised = "None"
    /\ rag_ret = Running

\* a request with both keys set and no CSV to ingest
RagAnswerInit ==
    /\ rag_pinecone_key = "sk"
    /\ rag_openai_key = "sk"
    /\ rag_csv = [exists |-> FALSE, rows |-> << >>]
    /\ rag_pc = "main"
    /\ rag_index = "None"
    /\ rag_df = << >>
    /\ rag_i = 0
    /\ processed_df = << >>
    /\ batch_pause_time = Halves(2)
    /\ rag_start_time = 0
    /\ rag_calls = << >>
    /\ rag_embedded = << >>
    /\ rag_upserted = [called |-> FALSE, rows |-> << >>]
    /\ rag_res = << >>
    /\ rag_raised = "None"
    /\ rag_ret = Running

\* lines 39-56: the credentials, then the index is opened
RagMain ==
    /\ rag_pc = "main"
    /\ IF not_set(rag_pinecone_key)
       THEN /\ RagReturn("config_error",
                         <<"Error: PINECONE_API_KEY environment variable is not set.">>)
            /\ UNCHANGED <<rag_index, rag_calls>>
       ELSE IF not_set(rag_openai_key)
       THEN /\ RagReturn("config_error",
                         <<"Error: OPENAI_API_KEY environment variable is not set.">>)
            /\ UNCHANGED <<rag_index, rag_calls>>
       ELSE /\ rag_calls' = Append(rag_calls, Call("get_pinecone_index", "index_name"))
            /\ \E opened \in BOOLEAN :
                  IF opened
                  THEN /\ rag_index' = "index"
                       /\ rag_pc' = "refresh"
                       /\ UNCHANGED rag_ret
                  ELSE /\ RagReturn("pinecone_error", <<"Error with Pinecone: ", "e">>)
                       /\ UNCHANGED rag_index
    /\ RagEnvUnchanged
    /\ UNCHANGED <<rag_df, rag_i, processed_df, batch_pause_time, rag_start_time,
                   rag_embedded, rag_upserted, rag_res, rag_raised>>
    /\ UNCHANGED <<trackerVars, embedVars, nonRagVars>>

\* lines 58-88: the CSV is loaded and cleaned, the batch loop is set up
RagLoad ==
    /\ rag_pc = "refresh"
    /\ LET loaded == import_csv(<< >>, rag_csv)
       IN \E appended \in BOOLEAN :
             /\ IF loaded = << >>
                THEN /\ RagLog("empty_data", appended)
                     /\ rag_calls' = rag_calls \o <<Call("import_csv", "csv_file"),
                                                    Call("log_error", "empty_data")>>
                ELSE /\ appended
                     /\ rag_calls' = Append(rag_calls, Call("import_csv", "csv_file"))
                     /\ UNCHANGED <<error_counts, last_error_time, success_counts,
                                    log_lines, last_op, logged>>
             /\ IF appended
                THEN /\ rag_df' = clean_data_pinecone_schema(loaded)
                     /\ rag_pc' = "batch"
                ELSE /\ rag_pc' = "handler"
                     /\ UNCHANGED rag_df
    /\ RagEnvUnchanged
    /\ UNCHANGED <<rag_index, rag_i, processed_df, batch_pause_time, rag_start_time,
                   rag_embedded, rag_upserted, rag_res, rag_raised, rag_ret>>
    /\ UNCHANGED <<now, embedVars, nonRagVars>>

\* (variant: the pause is doubled without a cap)
pause_after_error_Uncapped(pause) == pause * 2

\* line 138: min(30, batch_pause_time * 2), in half seconds
pause_after_error(pause) == Min(Halves(30), pause * 2)

\* line 122: max(1, batch_pause_time - 0.5), in half seconds
pause_after_fast_batch(pause) == Max(Halves(1), pause - 1)

\* (variant: the loop goes on whatever the tracker says)
batch_stops_Never(ok) == FALSE

\* line 98: `if not error_tracker.should_continue(...)`, then break
batch_stops(ok) == ~ok

\* df.iloc[i:i+batch_size], line 95
BatchOf(frame, i) == SubSeq(frame, i + 1, Min(i + batch_size, Len(frame)))

\* lines 90-107: the head of the batch loop; the tracker is consulted, then
\* generate_embeddings_and_add_to_df is entered with the slice
RagBatch ==
    /\ rag_pc = "batch"
    /\ IF rag_i < Len(rag_df)
       THEN /\ error_counts' = should_continue_counts("rate_limit",
                                   batch_rate_limit_threshold, batch_rate_limit_window)
            /\ IF ~batch_stops(should_continue_result("rate_limit",
                                   batch_rate_limit_threshold, batch_rate_limit_window))
               THEN /\ rag_calls' = rag_calls \o
                            <<Call("should_continue", "rate_limit"),
                              Call("generate_embeddings_and_add_to_df", "batch_df")>>
                    /\ rag_pc' = "embedding"
                    /\ rag_start_time' = now
                    /\ batch' = BatchOf(rag_df, rag_i)
                    /\ emb_pc' = "call"
                    /\ emb_ret' = "None"
                    /\ emb_i' = 1
                    /\ retries' = 0
                    /\ values' = << >>
                    /\ embedding_status' = << >>
                    /\ successful_embeddings' = 0
                    /\ failed_embeddings' = 0
                    /\ emb_waits' = << >>
                    /\ emb_kinds' = << >>
                    /\ emb_logs' = << >>
                    /\ counted' = << >>
               ELSE /\ rag_calls' = Append(rag_calls, Call("should_continue", "rate_limit"))
                    /\ rag_pc' = "upsert"
                    /\ UNCHANGED <<rag_start_time, embedVars>>
       ELSE /\ rag_pc' = "upsert"
            /\ UNCHANGED <<error_counts, rag_calls, rag_start_time, embedVars>>
    /\ RagEnvUnchanged
    /\ UNCHANGED <<rag_index, rag_df, rag_i, processed_df, batch_pause_time,
                   rag_embedded, rag_upserted, rag_res, rag_raised, rag_ret>>
    /\ UNCHANGED <<last_error_time, success_counts, log_lines, now, last_op, logged>>
    /\ UNCHANGED nonRagVars

\* the rows of the batch whose 'values' hold a vector when the call ends
Embedded == SelectSeq([k \in 1..Len(values) |-> [id |-> batch[k].id, values |-> values[k]]],
                      LAMBDA r : r.values = "list")

\* batch_df[batch_df['embedding_status'] == "success"], lines 110-111
success_rows ==
    LET tagged == [k \in 1..Len(embedding_status) |->
                      [id |-> batch[k].id, values |-> values[k],
                       embedding_status |-> embedding_status[k]]]
        kept == SelectSeq(tagged, LAMBDA r : r.embedding_status = "success")
    IN [k \in 1..Len(kept) |-> [id |-> kept[k].id, values |-> kept[k].values]]

\* lines 108-141: the call returned a tagged frame, or the try block raised
\* (generate_embeddings_and_add_to_df raised, or the frame has no
\* 'embedding_status' column)
RagBatchEnd ==
    /\ rag_pc = "embedding"
    /\ emb_pc \in {"returned", "raised"}
    /\ rag_embedded' = rag_embedded \o [k \in 1..Len(Embedded) |-> Embedded[k].id]
    /\ IF emb_pc = "returned" /\ emb_ret = "df"
       THEN /\ processed_df' = processed_df \o success_rows
            /\ \E fast \in BOOLEAN :
                  /\ fast => now = rag_start_time
                  /\ batch_pause_time' =
                        IF fast THEN pause_after_fast_batch(batch_pause_time)
                        ELSE batch_pause_time
            /\ IF rag_i + batch_size < Len(rag_df)
               THEN RagSleep(batch_pause_time')
               ELSE UNCHANGED now
            /\ rag_i' = rag_i + batch_size
            /\ rag_pc' = "batch"
            /\ UNCHANGED <<rag_calls, error_counts, last_error_time, success_counts,
                           log_lines, last_op, logged>>
       ELSE \E appended \in BOOLEAN :
               /\ RagLog("batch_processing", appended)
               /\ rag_calls' = Append(rag_calls, Call("log_error", "batch_processing"))
               /\ UNCHANGED processed_df
               /\ IF appended
                  THEN /\ batch_pause_time' = pause_after_error(batch_pause_time)
                       /\ RagSleep(batch_pause_time')
                       /\ rag_i' = rag_i + batch_size
                       /\ rag_pc' = "batch"
                  ELSE /\ rag_pc' = "handler"
                       /\ UNCHANGED <<batch_pause_time, now, rag_i>>
    /\ RagEnvUnchanged
    /\ UNCHANGED <<rag_index, rag_df, rag_start_time, rag_upserted, rag_res, rag_raised, rag_ret>>
    /\ UNCHANGED <<embedVars, nonRagVars>>

\* lines 143-168: what was collected is upserted, or its absence is logged
RagUpsert ==
    /\ rag_pc = "upsert"
    /\ \E upserted \in BOOLEAN, appended \in BOOLEAN :
          /\ IF processed_df # << >>
             THEN /\ rag_upserted' = [called |-> TRUE, rows |-> processed_df]
                  /\ IF upserted
                     THEN /\ appended
                          /\ rag_calls' = Append(rag_calls, Call("upsert_data", "processed_df"))
                          /\ UNCHANGED <<error_counts, last_error_time, success_counts,
                                         log_lines, last_op, logged>>
                     ELSE /\ RagLog("pinecone_upsert", appended)
                          /\ rag_calls' = rag_calls \o
                                <<Call("upsert_data", "processed_df"),
                                  Call("log_error", "pinecone_upsert")>>
             ELSE /\ upserted
                  /\ RagLog("no_embeddings", appended)
                  /\ rag_calls' = Append(rag_calls, Call("log_error", "no_embeddings"))
                  /\ UNCHANGED rag_upserted
          /\ rag_pc' = IF appended THEN "answer" ELSE "handler"
    /\ RagEnvUnchanged
    /\ UNCHANGED <<rag_index, rag_df, rag_i, processed_df, batch_pause_time,
                   rag_start_time, rag_embedded, rag_res, rag_raised, rag_ret>>
    /\ UNCHANGED <<now, embedVars, nonRagVars>>

\* lines 170-177, and lines 214-217 when the logging of the failure raises
RagHandler ==
    /\ rag_pc = "handler"
    /\ rag_calls' = Append(rag_calls, Call("log_error", "data_preparation"))
    /\ \E appended \in BOOLEAN :
          /\ RagLog("data_preparation", appended)
          /\ IF appended
             THEN /\ rag_pc' = "answer"
                  /\ UNCHANGED rag_ret
             ELSE RagReturn("unexpected_error", <<"Unexpected error: ", "e">>)
    /\ RagEnvUnchanged
    /\ UNCHANGED <<rag_index, rag_df, rag_i, processed_df, batch_pause_time,
                   rag_start_time, rag_embedded, rag_upserted, rag_res, rag_raised>>
    /\ UNCHANGED <<now, embedVars, nonRagVars>>

\* lines 179-192 and 206-213: the question is embedded, the index queried and
\* the prompt built; get_chat_completion_messages is entered, or what was
\* raised is turned into the message returned
RagAnswer ==
    /\ rag_pc = "answer"
    /\ \E embedded \in {"ok", "RateLimitError", "Exception"} :
          IF embedded # "ok"
          THEN /\ rag_calls' = Append(rag_calls, Call("get_embeddings", "query"))
               /\ rag_raised' = embedded
               /\ IF embedded = "RateLimitError"
                  THEN RagReturn("quota_error",
                           <<"OpenAI API Error: You've exceeded your quota. Please check your OpenAI API key and billing details.">>)
                  ELSE RagReturn("query_error", <<"Error processing query: ", "e">>)
               /\ UNCHANGED <<rag_res, chatVars>>
          ELSE \E queried \in BOOLEAN :
                  IF ~queried
                  THEN /\ rag_calls' = rag_calls \o <<Call("get_embeddings", "query"),
                                                      Call("index.query", "top_k")>>
                       /\ rag_raised' = "Exception"
                       /\ RagReturn("query_error", <<"Error processing query: ", "e">>)
                       /\ UNCHANGED <<rag_res, chatVars>>
                  ELSE \E res \in MatchSeqs :
                          /\ rag_calls' = rag_calls \o
                                <<Call("get_embeddings", "query"),
                                  Call("index.query", "top_k"),
                                  Call("get_chat_completion_messages", "messages")>>
                          /\ rag_res' = res
                          /\ rag_pc' = "chat"
                          /\ chat_pc' = "request"
                          /\ retry_count' = 0
                          /\ chat_waits' = << >>
                          /\ chat_kinds' = << >>
                          /\ chat_ret' = "None"
                          /\ UNCHANGED <<rag_raised, rag_ret>>
    /\ RagEnvUnchanged
    /\ UNCHANGED <<rag_index, rag_df, rag_i, processed_df, batch_pause_time,
                   rag_start_time, rag_embedded, rag_upserted>>
    /\ UNCHANGED <<trackerVars, embedVars, nonRagChatVars>>

\* lines 191-205: get_chat_completion_messages returned a string; the
\* citations are appended to it
RagAnswerEnd ==
    /\ rag_pc = "chat"
    /\ chat_pc = "returned"
    /\ RagReturn("answer", final_output(<<chat_ret>>, rag_res))
    /\ RagEnvUnchanged
    /\ UNCHANGED <<rag_index, rag_df, rag_i, processed_df, batch_pause_time,
                   rag_start_time, rag_calls, rag_embedded, rag_upserted, rag_res,
                   rag_raised>>
    /\ UNCHANGED <<trackerVars, embedVars, nonRagVars>>

RagNext ==
    \/ RagMain \/ RagLoad \/ RagBatch \/ RagBatchEnd \/ RagUpsert \/ RagHandler
    \/ RagAnswer \/ RagAnswerEnd
    \/ ChatOk \/ ChatAPIError
    \/ EmbedCall \/ EmbedRow \/ EmbedWhile \/ EmbedOk \/ EmbedException \/ EmbedFinish

(***************************************************************************)
(* app_confluence.py (Extraction Tool v1): main and the functions it       *)
(* calls.  The service holds a list of pages; each page has the answer of  *)
(* its labels request and of its content request.                          *)
(***************************************************************************)
MaxLegacyPages == 3     \* pages the space holds

legacy_limit == 25

LegacyLabels == {"True", "False", "None"}      \* what fetch_labels returns
LegacyContents == {"text", "None"}             \* what fetch_page_content leads to

LegacySpaces ==
    UNION {[1..n -> [is_internal : LegacyLabels, content : LegacyContents]] :
              n \in 0..MaxLegacyPages}

\* the page-list response of the service to fetch_pages(start, limit)
LegacyServed(space, from, chunk) ==
    [j \in 1..(Min(Len(space), from + chunk) - Min(Len(space), from)) |-> from + j]

\* fetch_all_pages, lines 184-186: the list is returned as it was passed,
\* ahead of the loop that requests chunks (lines 188-215)
fetch_all_pages(page_list, from, chunk) ==
    [ret |-> page_list, requests |-> << >>]

\* create_dataframe, add_all_pages_to_dataframe, set_index_of_dataframe
add_all_pages_to_dataframe(page_list) ==
    [k \in 1..Len(page_list) |->
        [id |-> page_list[k], is_internal |-> "NaN", content |-> "NaN"]]

\* delete_internal_only_records, lines 219-240
delete_internal_only_records(frame, space) ==
    LET labelled == [k \in 1..Len(frame) |->
                        IF space[frame[k].id].is_internal # "None"
                        THEN [frame[k] EXCEPT !.is_internal = space[frame[k].id].is_internal]
                        ELSE frame[k]]
        Keep(r) == r.is_internal # "True"
    IN SelectSeq(labelled, Keep)

\* add_content_to_dataframe, lines 243-273
add_content_to_dataframe(frame, space) ==
    [k \in 1..Len(frame) |->
        IF space[frame[k].id].content # "None"
        THEN [frame[k] EXCEPT !.content = space[frame[k].id].content]
        ELSE frame[k]]

LegacyIdle ==
    /\ v1_connected = FALSE
    /\ v1_space = << >>
    /\ v1_pc = "returned"
    /\ v1_requests = << >>
    /\ v1_all_pages = << >>
    /\ v1_df = << >>
    /\ v1_csv = NoFile

LegacyInit ==
    /\ v1_connected \in BOOLEAN
    /\ v1_space \in LegacySpaces
    /\ v1_pc = "main"
    /\ v1_requests = << >>
    /\ v1_all_pages = << >>
    /\ v1_df = << >>
    /\ v1_csv = NoFile

\* lines 313-322
LegacyMain ==
    /\ v1_pc = "main"
    /\ v1_pc' = IF v1_connected THEN "fetch" ELSE "returned"
    /\ UNCHANGED <<v1_connected, v1_space, v1_requests, v1_all_pages, v1_df, v1_csv>>
    /\ UNCHANGED nonLegacyVars

\* lines 324-328
LegacyFetch ==
    /\ v1_pc = "fetch"
    /\ LET fetched_pages == fetch_all_pages(v1_all_pages, 0, legacy_limit)
       IN /\ v1_all_pages' = fetched_pages.ret
          /\ v1_requests' = v1_requests \o fetched_pages.requests
    /\ v1_pc' = "frame"
    /\ UNCHANGED <<v1_connected, v1_space, v1_df, v1_csv>>
    /\ UNCHANGED nonLegacyVars

\* lines 329-331
LegacyFrame ==
    /\ v1_pc = "frame"
    /\ v1_df' = add_all_pages_to_dataframe(v1_all_pages)
    /\ v1_pc' = "labels"
    /\ UNCHANGED <<v1_connected, v1_space, v1_requests, v1_all_pages, v1_csv>>
    /\ UNCHANGED nonLegacyVars

\* lines 332-333
LegacyDeleteInternal ==
    /\ v1_pc = "labels"
    /\ v1_df' = delete_internal_only_records(v1_df, v1_space)
    /\ v1_pc' = "content"
    /\ UNCHANGED <<v1_connected, v1_space, v1_requests, v1_all_pages, v1_csv>>
    /\ UNCHANGED nonLegacyVars

\* lines 334-335
LegacyAddContent ==
    /\ v1_pc = "content"
    /\ v1_df' = add_content_to_dataframe(v1_df, v1_space)
    /\ v1_pc' = "save"
    /\ UNCHANGED <<v1_connected, v1_space, v1_requests, v1_all_pages, v1_csv>>
    /\ UNCHANGED nonLegacyVars

\* line 336 and save_dataframe_to_csv, lines 277-285: to_csv may raise, the
\* exception is printed
LegacySave ==
    /\ v1_pc = "save"
    /\ \E write_ok \in BOOLEAN :
          v1_csv' = IF write_ok THEN [written |-> TRUE, rows |-> v1_df] ELSE v1_csv
    /\ v1_pc' = "returned"
    /\ UNCHANGED <<v1_connected, v1_space, v1_requests, v1_all_pages, v1_df>>
    /\ UNCHANGED nonLegacyVars

LegacyNext ==
    \/ LegacyMain \/ LegacyFetch \/ LegacyFrame \/ LegacyDeleteInternal
    \/ LegacyAddContent \/ LegacySave

(***************************************************************************)
(* app_pinecone_openai.py, lines 226-233: main is the handler of a Gradio  *)
(* interface.  The server runs the handler of each request in a worker     *)
(* thread, and get_error_tracker() gives every one of them the same        *)
(* tracker.  Of the other requests the model keeps what they do to the     *)
(* tracker in the retry loop of generate_embeddings_and_add_to_df: the     *)
(* consultation at the head of the loop, and the log_error that follows a  *)
(* request that was rate limited.                                          *)
(***************************************************************************)
MaxOtherRequests == 6   \* other requests in the retry loop at the same time

SharedIdle == other_pending = 0

\* the tracker as the earlier requests of the process leave it: the rate_limit
\* count is absent or between 0 and the threshold of data_prep.py line 125,
\* and the last of those errors is either fresh or older than the window
TrackerLeft ==
    /\ \E k \in 0..rate_limit_threshold :
          /\ error_counts \in {<< >>, Put(<< >>, "rate_limit", k)}
          /\ last_error_time = IF error_counts = << >> THEN << >>
                               ELSE Put(<< >>, "rate_limit", 0)
          /\ logged = [t \in ErrorTypes |-> IF t = "rate_limit" /\ error_counts # << >>
                                            THEN k ELSE 0]
    /\ success_counts = << >>
    /\ log_lines = 0
    /\ now \in {0, rate_limit_window + 1}
    /\ last_op = NoOp

\* a request with both keys set and a CSV of at least one row
RagSharedInit ==
    /\ rag_pinecone_key = "sk"
    /\ rag_openai_key = "sk"
    /\ rag_csv \in {[exists |-> TRUE, rows |-> t] : t \in RagTables \ {<< >>}}
    /\ rag_pc = "main"
    /\ rag_index = "None"
    /\ rag_df = << >>
    /\ rag_i = 0
    /\ processed_df = << >>
    /\ batch_pause_time = Halves(2)
    /\ rag_start_time = 0
    /\ rag_calls = << >>
    /\ rag_embedded = << >>
    /\ rag_upserted = [called |-> FALSE, rows |-> << >>]
    /\ rag_res = << >>
    /\ rag_raised = "None"
    /\ rag_ret = Running

\* data_prep.py line 125 in another request: the tracker lets it go on
OtherConsults ==
    /\ other_pending < MaxOtherRequests
    /\ should_continue_result("rate_limit", rate_limit_threshold, rate_limit_window)
    /\ error_counts' = should_continue_counts("rate_limit", rate_limit_threshold,
                                              rate_limit_window)
    /\ other_pending' = other_pending + 1
    /\ UNCHANGED <<last_error_time, success_counts, log_lines, now, last_op, logged>>
    /\ UNCHANGED nonSharedVars

\* data_prep.py lines 153-159 in another request: its embedding request was
\* rate limited
OtherRateLimited ==
    /\ other_pending > 0
    /\ log_error("rate_limit", TRUE)
    /\ other_pending' = other_pending - 1
    /\ UNCHANGED <<success_counts, now, last_op>>
    /\ UNCHANGED nonSharedVars

(***************************************************************************)
(* utils/confluence_api.py: fetch_labels on the value api_call returned.   *)
(*                                                                         *)
(* api_call gives None or whatever response.json() parsed: a dict with a   *)
(* results list, a dict without one, an empty dict, or a JSON array.  An   *)
(* entry of results is a dict, with or without a name, or a bare string.   *)
(***************************************************************************)
MaxLabels == 3          \* entries of a results list

LabelEntries ==
    {[kind |-> "dict", name |-> n] : n \in {"internal_only", "Internal_Only", "public", "None"}}
        \cup {[kind |-> "str", name |-> "None"]}

LabelLists == UNION {[1..n -> LabelEntries] : n \in 0..MaxLabels}

LabelBodies ==
    {[kind |-> "none", results |-> << >>],            \* api_call returned None
     [kind |-> "empty_dict", results |-> << >>],      \* {}
     [kind |-> "no_results", results |-> << >>],      \* {"message": ...}
     [kind |-> "empty_array", results |-> << >>],     \* []
     [kind |-> "array", results |-> << >>]}           \* [ ... ]
        \cup {[kind |-> "labels", results |-> l] : l \in LabelLists}

\* `if json_data:`, line 134: None, {} and [] are falsy
Truthy(json_data) == json_data.kind \notin {"none", "empty_dict", "empty_array"}

\* lines 136-141: json_data.get("results", []) and the loop over it.  A JSON
\* array has no get, and neither has an entry that is a string: both raise
\* AttributeError, which `except KeyError` does not catch
fetch_labels_json(json_data) ==
    IF ~Truthy(json_data) THEN "None"
    ELSE IF json_data.kind = "array" THEN "raised"
    ELSE LET results == IF json_data.kind = "labels" THEN json_data.results ELSE << >>
         IN IF \E k \in 1..Len(results) : results[k].kind = "str" THEN "raised"
            ELSE BoolStr(\E k \in 1..Len(results) : results[k].name = "internal_only")

LabelsIdle ==
    /\ lbl_json = [kind |-> "none", results |-> << >>]
    /\ lbl_pc = "returned"
    /\ lbl_ret = "None"

LabelsInit ==
    /\ lbl_json \in LabelBodies
    /\ lbl_pc = "call"
    /\ lbl_ret = "None"

\* fetch_labels, lines 127-147
FetchLabels ==
    /\ lbl_pc = "call"
    /\ LET ret == fetch_labels_json(lbl_json)
       IN IF ret = "raised"
          THEN lbl_pc' = "raised" /\ UNCHANGED lbl_ret
          ELSE lbl_pc' = "returned" /\ lbl_ret' = ret
    /\ UNCHANGED lbl_json
    /\ UNCHANGED nonLabelVars

LabelsNext == FetchLabels

(***************************************************************************)
(* The tracker driven by an arbitrary single-threaded caller.              *)
(***************************************************************************)
LogErrorCall(t, appended) ==
    /\ logged[t] < (IF t = "rate_limit" THEN MaxErrors ELSE MaxOtherErrors)
    /\ log_error(t, appended)
    /\ last_op' = [name |-> "log_error", arg |-> t, threshold |-> 0, window |-> 0,
                   ret |-> IF appended THEN "log_entry" ELSE "raised"]
    /\ UNCHANGED <<success_counts, now>>
    /\ UNCHANGED nonTrackerVars

ShouldContinueCall(t, th, w) ==
    /\ error_counts' = should_continue_counts(t, th, w)
    /\ last_op' = [name |-> "should_continue", arg |-> t, threshold |-> th,
                   window |-> w, ret |-> BoolStr(should_continue_result(t, th, w))]
    /\ UNCHANGED <<last_error_time, success_counts, log_lines, now, logged>>
    /\ UNCHANGED nonTrackerVars

CallLogError == \E t \in ErrorTypes, appended \in BOOLEAN : LogErrorCall(t, appended)

CallLogSuccess ==
    \E o \in OperationTypes :
        /\ Get(success_counts, o) < MaxSuccess
        /\ log_success(o)
        /\ last_op' = [name |-> "log_success", arg |-> o, threshold |-> 0, window |-> 0,
                       ret |-> "None"]
        /\ UNCHANGED <<error_counts, last_error_time, log_lines, now, logged>>
        /\ UNCHANGED nonTrackerVars

CallShouldContinue ==
    \E t \in ErrorTypes, th \in Thresholds, w \in Windows : ShouldContinueCall(t, th, w)

Tick ==
    /\ now < MaxTime
    /\ now' = now + 1
    /\ UNCHANGED <<error_counts, last_error_time, success_counts, log_lines,
                   last_op, logged>>
    /\ UNCHANGED nonTrackerVars

TrackerNext == CallLogError \/ CallLogSuccess \/ CallShouldContinue \/ Tick

InitTracker == TrackerInit /\ PagingIdle /\ ExtractIdle /\ CleanIdle /\ ChatIdle /\ EmbedIdle /\ ApiIdle /\ IndexIdle /\ ExportIdle /\ PipelineIdle /\ RagIdle /\ LegacyIdle /\ SharedIdle /\ LabelsIdle

SpecTracker == InitTracker /\ [][TrackerNext]_vars

(***************************************************************************)
(* The tracker driven by a caller that logs one error type and asks        *)
(* should_continue with the default threshold only.                        *)
(***************************************************************************)
LogRateLimit == \E appended \in BOOLEAN : LogErrorCall("rate_limit", appended)

AskDefaultThreshold ==
    ShouldContinueCall("rate_limit", DefaultThreshold, ScenarioWindow)

Threshold5Next == LogRateLimit \/ AskDefaultThreshold \/ Tick

SpecThreshold5 == InitTracker /\ [][Threshold5Next]_vars

(***************************************************************************)
(* The listers and the extraction tool, each run on its own.               *)
(***************************************************************************)
InitPaging == TrackerInit /\ PagingInit /\ ExtractIdle /\ CleanIdle /\ ChatIdle /\ EmbedIdle /\ ApiIdle /\ IndexIdle /\ ExportIdle /\ PipelineIdle /\ RagIdle /\ LegacyIdle /\ SharedIdle /\ LabelsIdle

SpecPaging == InitPaging /\ [][PagingNext]_vars

InitExtract == TrackerInit /\ PagingIdle /\ ExtractInit /\ CleanIdle /\ ChatIdle /\ EmbedIdle /\ ApiIdle /\ IndexIdle /\ ExportIdle /\ PipelineIdle /\ RagIdle /\ LegacyIdle /\ SharedIdle /\ LabelsIdle

SpecExtract == InitExtract /\ [][ExtractNext]_vars

InitClean == TrackerInit /\ PagingIdle /\ ExtractIdle /\ CleanInit /\ ChatIdle /\ EmbedIdle /\ ApiIdle /\ IndexIdle /\ ExportIdle /\ PipelineIdle /\ RagIdle /\ LegacyIdle /\ SharedIdle /\ LabelsIdle

SpecClean == InitClean /\ [][CleanNext]_vars

InitChat == TrackerInit /\ PagingIdle /\ ExtractIdle /\ CleanIdle /\ ChatInit /\ EmbedIdle /\ ApiIdle /\ IndexIdle /\ ExportIdle /\ PipelineIdle /\ RagIdle /\ LegacyIdle /\ SharedIdle /\ LabelsIdle

SpecChat == InitChat /\ [][ChatNext]_vars

InitEmbed == TrackerInit /\ PagingIdle /\ ExtractIdle /\ CleanIdle /\ ChatIdle /\ EmbedInit /\ ApiIdle /\ IndexIdle /\ ExportIdle /\ PipelineIdle /\ RagIdle /\ LegacyIdle /\ SharedIdle /\ LabelsIdle

SpecEmbed == InitEmbed /\ [][EmbedNext]_vars

InitApi == TrackerInit /\ PagingIdle /\ ExtractIdle /\ CleanIdle /\ ChatIdle /\ EmbedIdle /\ ApiInit /\ IndexIdle /\ ExportIdle /\ PipelineIdle /\ RagIdle /\ LegacyIdle /\ SharedIdle /\ LabelsIdle

SpecApi == InitApi /\ [][ApiNext]_vars

InitIndex == TrackerInit /\ PagingIdle /\ ExtractIdle /\ CleanIdle /\ ChatIdle /\ EmbedIdle /\ ApiIdle /\ IndexInit /\ ExportIdle /\ PipelineIdle /\ RagIdle /\ LegacyIdle /\ SharedIdle /\ LabelsIdle

SpecIndex == InitIndex /\ [][IndexNext]_vars

InitExport == TrackerInit /\ PagingIdle /\ ExtractIdle /\ CleanIdle /\ ChatIdle /\ EmbedIdle /\ ApiIdle /\ IndexIdle /\ ExportInit /\ PipelineIdle /\ RagIdle /\ LegacyIdle /\ SharedIdle /\ LabelsIdle

SpecExport == InitExport /\ [][ExportNext]_vars

InitPipeline == TrackerInit /\ PagingIdle /\ ExtractIdle /\ CleanIdle /\ ChatIdle /\ EmbedIdle /\ ApiIdle /\ IndexIdle /\ ExportIdle /\ PipelineInit /\ RagIdle /\ LegacyIdle /\ SharedIdle /\ LabelsIdle

SpecPipeline == InitPipeline /\ [][PipelineNext]_vars

InitRag == TrackerInit /\ PagingIdle /\ ExtractIdle /\ CleanIdle /\ ChatIdle /\ EmbedIdle /\ ApiIdle /\ IndexIdle /\ ExportIdle /\ PipelineIdle /\ RagInit /\ LegacyIdle /\ SharedIdle /\ LabelsIdle

SpecRag == InitRag /\ [][RagNext]_vars

\* either one call of get_chat_completion_messages or one call of
\* generate_embeddings_and_add_to_df
InitChatOrEmbed == TrackerInit /\ PagingIdle /\ ExtractIdle /\ CleanIdle /\ ((ChatInit /\ EmbedIdle) \/ (ChatIdle /\ EmbedInit)) /\ ApiIdle /\ IndexIdle /\ ExportIdle /\ PipelineIdle /\ RagIdle /\ LegacyIdle /\ SharedIdle /\ LabelsIdle

ChatOrEmbedNext == ChatNext \/ EmbedNext

SpecChatOrEmbed == InitChatOrEmbed /\ [][ChatOrEmbedNext]_vars

\* the polling loop keeps running while the listing can be read, and the
\* service eventually shows an accepted request in its listing
PollListed == IndexWait /\ ix_cur'.ret # "False"

SpecIndexFair ==
    InitIndex /\ [][IndexNext]_vars /\ WF_vars(PollListed) /\ WF_vars(ServiceSettle)

\* get_space_id_and_pages.py runs to the end of its main and exits;
\* app_confluence_v2.py (line 212) and app_pinecone_openai.py (line 233) end
\* with demo.launch(...), which serves the web UI from the main thread until
\* the process is stopped or the launch raises
Serves(step) == step \in {2, 3}

\* the exit of a child whose program runs to its end
ProgramEnds ==
    /\ PipelineStepExit
    /\ \A step \in pl_running : ~Serves(step)

\* the orchestrator's own statements run on, and a child that runs to the
\* end of its program exits; a child that serves exits only when it is
\* stopped from outside or fails, which nothing obliges to happen
SpecPipelineLive ==
    InitPipeline /\ [][PipelineNext]_vars /\ WF_vars(PipelineStart) /\ WF_vars(ProgramEnds) /\ WF_vars(PipelineStart2) /\ WF_vars(PipelineCheck3) /\ WF_vars(PipelineListing)

InitLegacy == TrackerInit /\ PagingIdle /\ ExtractIdle /\ CleanIdle /\ ChatIdle /\ EmbedIdle /\ ApiIdle /\ IndexIdle /\ ExportIdle /\ PipelineIdle /\ RagIdle /\ LegacyInit /\ SharedIdle /\ LabelsIdle

SpecLegacy == InitLegacy /\ [][LegacyNext]_vars

InitRagPause == TrackerInit /\ PagingIdle /\ ExtractIdle /\ CleanIdle /\ ChatIdle /\ EmbedIdle /\ ApiIdle /\ IndexIdle /\ ExportIdle /\ PipelineIdle /\ RagPauseInit /\ LegacyIdle /\ SharedIdle /\ LabelsIdle

\* an exception that leaves generate_embeddings_and_add_to_df
EmbedLeaves == EmbedException /\ emb_pc' = "raised"

\* the ingestion of a request: the batch loop and what it calls; a row is
\* embedded or the call is left by an exception
RagPauseNext ==
    \/ RagMain \/ RagLoad \/ RagBatch \/ RagBatchEnd \/ RagUpsert \/ RagHandler
    \/ EmbedCall \/ EmbedRow \/ EmbedWhile \/ EmbedOk \/ EmbedLeaves \/ EmbedFinish

SpecRagPause == InitRagPause /\ [][RagPauseNext]_vars

InitRagAnswer == TrackerInit /\ PagingIdle /\ ExtractIdle /\ CleanIdle /\ ChatIdle /\ EmbedIdle /\ ApiIdle /\ IndexIdle /\ ExportIdle /\ PipelineIdle /\ RagAnswerInit /\ LegacyIdle /\ SharedIdle /\ LabelsIdle

\* a request whose answering step meets every outcome of the chat call
RagAnswerNext ==
    \/ RagMain \/ RagLoad \/ RagBatch \/ RagUpsert \/ RagHandler
    \/ RagAnswer \/ RagAnswerEnd
    \/ ChatOk \/ ChatRateLimitError \/ ChatAPIConnectionError \/ ChatAPIError
    \/ ChatException

SpecRagAnswer == InitRagAnswer /\ [][RagAnswerNext]_vars

InitRagShared == TrackerInit /\ PagingIdle /\ ExtractIdle /\ CleanIdle /\ ChatIdle /\ EmbedIdle /\ ApiIdle /\ IndexIdle /\ ExportIdle /\ PipelineIdle /\ RagSharedInit /\ LegacyIdle /\ SharedIdle /\ LabelsIdle

\* the ingestion of one request while other requests use the tracker
RagSharedNext ==
    \/ RagMain \/ RagLoad \/ RagBatch \/ RagBatchEnd \/ RagUpsert \/ RagHandler
    \/ EmbedCall \/ EmbedRow \/ EmbedWhile \/ EmbedOk \/ EmbedFinish
    \/ OtherConsults \/ OtherRateLimited

SpecRagShared == InitRagShared /\ [][RagSharedNext]_vars

InitLabels == TrackerInit /\ PagingIdle /\ ExtractIdle /\ CleanIdle /\ ChatIdle /\ EmbedIdle /\ ApiIdle /\ IndexIdle /\ ExportIdle /\ PipelineIdle /\ RagIdle /\ LegacyIdle /\ SharedIdle /\ LabelsInit

SpecLabels == InitLabels /\ [][LabelsNext]_vars

InitRagQueries == TrackerLeft /\ PagingIdle /\ ExtractIdle /\ CleanIdle /\ ChatIdle /\ EmbedIdle /\ ApiIdle /\ IndexIdle /\ ExportIdle /\ PipelineIdle /\ RagSharedInit /\ LegacyIdle /\ SharedIdle /\ LabelsIdle

\* the ingestion of a request that follows other requests of the process
RagQueriesNext ==
    \/ RagMain \/ RagLoad \/ RagBatch \/ RagBatchEnd \/ RagUpsert \/ RagHandler
    \/ EmbedCall \/ EmbedRow \/ EmbedWhile \/ EmbedOk \/ EmbedRateLimitError
    \/ EmbedFinish

SpecRagQueries == InitRagQueries /\ [][RagQueriesNext]_vars

(***************************************************************************)
(* Claims about the paginating listers.                                    *)
(***************************************************************************)
RECURSIVE ConcatResults(_)
ConcatResults(rs) ==
    IF rs = << >> THEN << >>
    ELSE ConcatResults(SubSeq(rs, 1, Len(rs) - 1)) \o rs[Len(rs)].results

ListerLimit == IF lister = "get_all_spaces_list" THEN SpacesLimit ELSE PagesLimit

\* every response is a page response and only the last one lacks _links.next
OnlyLastLacksNext ==
    /\ Len(pages) >= 1
    /\ \A k \in 1..Len(pages) :
          pages[k].kind = "page" /\ (pages[k].next <=> k < Len(pages))

NoEmptyPageBeforeLast ==
    \A k \in 1..(Len(pages) - 1) : pages[k].results # << >>

ListedExactly ==
    /\ Len(requests) <= Len(pages)
    /\ \A i \in 1..Len(requests) : requests[i] = (i - 1) * ListerLimit
    /\ lister_pc = "done" =>
          (all_pages = ConcatResults(pages) /\ Len(requests) = Len(pages))

\* C3 as stated: for any sequence of page responses in which only the last
\* lacks _links.next, a lister that received them returns the concatenation of
\* all results, requests offsets 0, limit, 2*limit, ... and issues no request
\* after the response that lacks next.
C3_AnyResponses ==
    (lister # "none" /\ ~fetch_failed /\ OnlyLastLacksNext) => ListedExactly

\* C3 amended: the same, for sequences in which, besides, every response before
\* the last has a non-empty results list (an empty results list ends the
\* listing even when the response carries a next link).
C3_Pagination ==
    (lister # "none" /\ ~fetch_failed /\ OnlyLastLacksNext /\ NoEmptyPageBeforeLast)
        => ListedExactly

C3_Witness ==
    /\ lister = "get_pages_for_space_key"
    /\ lister_pc = "done"
    /\ ~fetch_failed
    /\ OnlyLastLacksNext
    /\ NoEmptyPageBeforeLast
    /\ Len(pages) >= 2
    /\ Len(all_pages) >= 3
    /\ Len(requests) = Len(pages)

(***************************************************************************)
(* Claims about Extraction Tool v2.                                        *)
(***************************************************************************)
Ids(rows) == [i \in 1..Len(rows) |-> rows[i].id]

NotInternal(page_id) == page_id \notin internal

C5_NoInternalInCsv ==
    \A i \in 1..Len(csv.rows) : csv.rows[i].id \notin internal

(***************************************************************************)
(* Claims about cleaning and the metadata round trip.                      *)
(***************************************************************************)
Missing == [t |-> "missing", s |-> << >>, items |-> << >>]

HasContent(r) == ~(r.content = NaN \/ r.content = Str(<< >>))

Survivors == SelectSeq(Numbered(table), HasContent)

\* C6: clean_data_pinecone_schema drops exactly the rows whose content is
\* absent or the empty string, keeps the other rows in their order, and gives
\* each surviving row a metadata object with exactly source = the row's
\* tiny_link and text = the row's content.
C6_CleanSchema ==
    clean_pc \in {"cleaned", "decoded"}
        => /\ Len(cleaned) = Len(Survivors)
           /\ \A i \in 1..Len(cleaned) :
                 /\ cleaned[i].id = Str(<<Digit(Survivors[i].id)>>)
                 /\ cleaned[i].metadata.t = "str"
                 /\ LET m == JsonLoads(cleaned[i].metadata.s)
                    IN /\ m.ok
                       /\ m.val.t = "dict"
                       /\ Len(m.val.items) = 2
                       /\ DictGet(m.val.items, SourceKey, Missing)
                             = Survivors[i].tiny_link
                       /\ DictGet(m.val.items, TextKey, Missing)
                             = Survivors[i].content

C6_Witness ==
    /\ clean_pc = "cleaned"
    /\ Len(table) = 3
    /\ table[1].content = NaN
    /\ table[2].content = Str(<<QUOTE, BACKSLASH>>)
    /\ table[3].content = Str(<< >>)
    /\ Len(cleaned) = 1

\* C7: for every record with non-empty content, what the row loop of
\* generate_embeddings_and_add_to_df decodes from the metadata string that
\* clean_data_pinecone_schema encoded has source equal to the record's
\* tiny_link and text equal to the record's content.
C7_RoundTrip ==
    clean_pc = "decoded"
        => /\ Len(decoded) = Len(Survivors)
           /\ \A i \in 1..Len(decoded) :
                 /\ decoded[i].outcome = "ok"
                 /\ decoded[i].text = Survivors[i].content
                 /\ DictGet(decoded[i].meta.items, SourceKey, Missing)
                       = Survivors[i].tiny_link

C7_Witness ==
    /\ clean_pc = "decoded"
    /\ Len(decoded) = 2
    /\ decoded[1].text = Str(<<QUOTE, BACKSLASH>>)
    /\ DictGet(decoded[1].meta.items, SourceKey, Missing) = Str(<<BACKSLASH, QUOTE>>)
    /\ decoded[2].text = Str(<<"a", NEWLINE>>)

(***************************************************************************)
(* Claims about the chat retry loop.                                       *)
(***************************************************************************)
AllRateLimited(kinds) == \A i \in 1..Len(kinds) : kinds[i] = "rate_limit"

\* C9: when every chat request fails with a rate-limit failure,
\* get_chat_completion_messages waits exactly 5, 10 and 20 seconds before
\* retries 1, 2 and 3, returns an apology string after the 3rd retry fails,
\* and never makes a 4th retry (five requests).
C9_ChatBackoff ==
    /\ (AllRateLimited(chat_kinds) /\ chat_kinds # << >>)
          => /\ Len(chat_kinds) <= 4
             /\ \A i \in 1..Len(chat_waits) : chat_waits[i] = <<5, 10, 20>>[i]
    /\ (chat_pc = "returned" /\ AllRateLimited(chat_kinds) /\ chat_kinds # << >>)
          => /\ chat_waits = <<5, 10, 20>>
             /\ chat_ret = "high_traffic"

(***************************************************************************)
(* Claims about the embedding row loop.                                    *)
(***************************************************************************)
AllOk == \A i \in 1..Len(emb_kinds) : \A j \in 1..Len(emb_kinds[i]) : emb_kinds[i][j] = "ok"

EmbedDone == emb_pc \in {"returned", "raised"}

\* C8: in generate_embeddings_and_add_to_df, when some rows fail metadata
\* decoding or have no text and every embedding request succeeds, the call
\* returns the batch with exactly the other rows tagged success and the
\* failing rows tagged not_processed; rows after a failing row are processed.
C8_DecodeFailuresSkipped ==
    (EmbedDone /\ batch # << >> /\ AllOk)
        => /\ emb_ret = "df"
           /\ \A i \in 1..Len(batch) :
                 embedding_status[i] = IF DecodeRow(batch[i]).outcome = "ok"
                                       THEN "success" ELSE "not_processed"

\* C10: started with a tracker holding no rate_limit errors, a row whose every
\* embedding request fails with a rate-limit failure logs one rate_limit error
\* per failed attempt, waits exactly 5, 10 and 20 seconds before retries 1, 2
\* and 3, and is counted failed after the 3rd retry fails (four requests).
C10_EmbedBackoff ==
    \A i \in 1..Len(emb_kinds) :
        ((EmbedDone \/ emb_i > i) /\ emb_kinds[i] # << >> /\ AllRateLimited(emb_kinds[i]))
            => /\ emb_waits[i] = <<5, 10, 20>>
               /\ Len(emb_kinds[i]) = 4
               /\ emb_logs[i] = Len(emb_kinds[i])
               /\ counted[i] = "failed"

(***************************************************************************)
(* Claims about the tracker.                                               *)
(***************************************************************************)
Count(t) == Get(error_counts, t)
Elapsed(t) == now - Get(last_error_time, t)

\* C1: with one error type and threshold 5, a should_continue call made after
\* exactly 5 log_error calls returns False while no more than window_seconds
\* have elapsed since the last error, and once more than window_seconds have
\* elapsed it returns True and leaves the type's count at 0.
C1_ThresholdFive ==
    [][(ShouldContinueCall("rate_limit", DefaultThreshold, ScenarioWindow)
          /\ logged["rate_limit"] = 5)
       => /\ (Elapsed("rate_limit") <= ScenarioWindow) => last_op'.ret = "False"
          /\ (Elapsed("rate_limit") > ScenarioWindow)
               => (last_op'.ret = "True" /\ error_counts'["rate_limit"] = 0)]_vars

C1_Witness ==
    /\ last_op.name = "should_continue"
    /\ last_op.threshold = DefaultThreshold
    /\ last_op.ret = "True"
    /\ logged["rate_limit"] = 5
    /\ "rate_limit" \in DOMAIN error_counts
    /\ error_counts["rate_limit"] = 0

\* C2: should_continue(type, threshold, window) returns False exactly when the
\* type's count is >= threshold and the time since its last error is <= window;
\* it changes the tracker only when count >= threshold and the window has
\* elapsed, and then only by setting that type's count to 0.
C2_ShouldContinue ==
    [][\A t \in ErrorTypes, th \in Thresholds, w \in Windows :
          ShouldContinueCall(t, th, w)
          => /\ (last_op'.ret = "False") <=> (Count(t) >= th /\ Elapsed(t) <= w)
             /\ last_op'.ret \in {"True", "False"}
             /\ IF Count(t) >= th /\ Elapsed(t) > w
                THEN /\ DOMAIN error_counts' = DOMAIN error_counts
                     /\ error_counts'[t] = 0
                     /\ \A u \in DOMAIN error_counts \ {t} :
                            error_counts'[u] = error_counts[u]
                ELSE error_counts' = error_counts
             /\ last_error_time' = last_error_time
             /\ success_counts' = success_counts]_vars

C2_Witness ==
    /\ last_op.name = "should_continue"
    /\ last_op.arg = "rate_limit"
    /\ last_op.ret = "True"
    /\ Count("rate_limit") = 0
    /\ logged["rate_limit"] >= 2
    /\ Count("api_connection") >= 1
    /\ Get(success_counts, "embedding_generation") = 1

\* C17: log_error never raises: when the append to the daily log file fails,
\* the failure does not reach the caller, and the type's count has still been
\* incremented by exactly 1.
C17_LogErrorNeverRaises ==
    [][\A t \in ErrorTypes, appended \in BOOLEAN :
          LogErrorCall(t, appended)
              => /\ last_op'.ret # "raised"
                 /\ error_counts'[t] = Get(error_counts, t) + 1]_vars

\* C16: api_call returns the parsed JSON body when the HTTP status is 200,
\* returns None for every other status and for every network-level failure,
\* and never raises to its caller.
C16_ApiCallNeverRaises ==
    api_pc = "done"
        => /\ api_ret.kind # "raised"
           /\ (api_in.network_ok /\ api_in.status_code = 200)
                 => api_ret = [kind |-> "json", body |-> api_in.body]
           /\ ~(api_in.network_ok /\ api_in.status_code = 200)
                 => api_ret.kind = "None"

(***************************************************************************)
(* Claims about the index management utility.                              *)
(***************************************************************************)
\* C14: create_pinecone_index on a name already in the listing returns success
\* without a create request, delete_pinecone_index on a name not in the
\* listing returns success without a delete request, and a create (delete)
\* that follows a successful create (delete) issues no request.
C14_Idempotent ==
    /\ \A i \in 1..Len(ix_log) :
          LET c == ix_log[i]
          IN /\ (c.fn = "create" /\ c.listed = "True")
                   => (c.ret = "True" /\ c.requests = << >>)
             /\ (c.fn = "delete" /\ c.listed = "False")
                   => (c.ret = "True" /\ c.requests = << >>)
    /\ \A i \in 1..(Len(ix_log) - 1) :
          (/\ ix_log[i].fn \in {"create", "delete"}
           /\ ix_log[i].ret = "True"
           /\ ix_log[i].requests # << >>
           /\ ix_log[i + 1].fn = ix_log[i].fn)
              => ix_log[i + 1].requests = << >>

C14_Witness ==
    /\ Len(ix_log) = 2
    /\ ix_log[1].fn = "create" /\ ix_log[1].requests = <<"create">>
    /\ ix_log[1].ret = "True"
    /\ ix_log[2].fn = "create" /\ ix_log[2].listed = "True" /\ ix_log[2].ret = "True"

\* C20: reset_pinecone_index performs delete and then create in that order;
\* when the delete half fails no create request is issued and reset returns
\* failure; when the create half fails reset returns failure; reset returns
\* success only when both halves returned success.
C20_Reset ==
    \A i \in 1..Len(ix_log) :
        LET r == ix_log[i]
        IN r.fn = "reset"
             => /\ r.requests \in {<< >>, <<"delete">>, <<"create">>, <<"delete", "create">>}
                /\ r.delete_success = "False"
                      => /\ r.ret = "False"
                         /\ r.create_success = "None"
                         /\ \A j \in 1..Len(r.requests) : r.requests[j] # "create"
                /\ r.create_success = "False" => r.ret = "False"
                /\ r.ret = "True" <=> (r.delete_success = "True" /\ r.create_success = "True")
                /\ r.create_success # "None"
                      => /\ i >= 3
                         /\ ix_log[i - 2].fn = "delete" /\ ix_log[i - 2].caller = "reset"
                         /\ ix_log[i - 1].fn = "create" /\ ix_log[i - 1].caller = "reset"

C20_Witness ==
    \E i \in 1..Len(ix_log) :
        /\ ix_log[i].fn = "reset"
        /\ ix_log[i].requests = <<"delete", "create">>
        /\ ix_log[i].ret = "True"

C20_WitnessDeleteFails ==
    \E i \in 1..Len(ix_log) :
        /\ ix_log[i].fn = "reset"
        /\ ix_log[i].delete_success = "False"
        /\ ix_log[i].requests = <<"delete">>

(***************************************************************************)
(* Claims about the Space/Page Export CLI.                                 *)
(***************************************************************************)
\* C18: when the space key does not resolve to an id, the export program
\* exits with a non-zero code, issues no page-list request and writes no
\* output file.
C18_UnresolvedExits ==
    (exp_spaces.kind # "found" /\ exp_pc # "resolve")
        => /\ exp_pc = "exited"
           /\ exit_code = 1
           /\ exp_requests = << >>
           /\ exp_file = NoFile

C18_Witness ==
    /\ exp_spaces.kind = "not_listed"
    /\ exp_served # << >>
    /\ exp_pc = "exited"
    /\ exit_code = 1

(***************************************************************************)
(* Claims about the Pipeline Orchestrator.                                 *)
(***************************************************************************)
Started(step, i) == pl_events[i].step = step /\ pl_events[i].what = "start"

ExitedZeroBefore(step, i) ==
    \E j \in 1..(i - 1) :
        /\ pl_events[j].step = step
        /\ pl_events[j].what = "exit"
        /\ pl_events[j].code = 0

\* C19: no step runs when the space key is not configured; step 2 starts only
\* after step 1 has exited with code zero and step 3 only after step 2 has
\* exited with code zero; no two steps run at the same time; and a non-zero
\* exit of step 3 still leads to the CSV listing.
C19_Sequencing ==
    /\ ~pl_space_key => pl_events = << >>
    /\ \A i \in 1..Len(pl_events) :
          /\ Started(2, i) => ExitedZeroBefore(1, i)
          /\ Started(3, i) => ExitedZeroBefore(2, i)
    /\ Cardinality(pl_running) <= 1
    /\ \A i \in 1..Len(pl_events) :
          (/\ pl_events[i] \in [step : {3}, what : {"exit"}, code : ExitCodes \ {0}]
           /\ pl_pc = "done")
              => pl_listed.printed

C19_Witness ==
    /\ pl_pc = "done"
    /\ Len(pl_events) = 6
    /\ pl_events[6] = [step |-> 3, what |-> "exit", code |-> 2]
    /\ pl_listed = [printed |-> TRUE, names |-> CsvNames]

(***************************************************************************)
(* Claims about main of app_pinecone_openai.py.  SpecRag lets an embedding *)
(* request end in a vector or in an exception that is not an OpenAI error: *)
(* a row then succeeds, fails and is logged, or its logging raises.        *)
(***************************************************************************)
Absent(value) == value = "None" \/ value = ""

\* C12: when the vector-index credential or the embedding/chat credential is
\* absent, main returns a configuration-error string and has called neither
\* the vector-index service, nor the embedding/chat service, nor the CSV
\* loader, nor the error tracker.
C12_ConfigError ==
    (Absent(rag_pinecone_key) \/ Absent(rag_openai_key)) =>
        /\ rag_pc = "returned" => rag_ret.kind = "config_error"
        /\ rag_pc \in {"main", "returned"}
        /\ rag_calls = << >>
        /\ rag_index = "None"
        /\ ~rag_upserted.called
        /\ emb_pc = "returned" /\ emb_kinds = << >>
        /\ error_counts = << >> /\ success_counts = << >> /\ log_lines = 0

C12_Witness ==
    /\ rag_pc = "returned"
    /\ rag_pinecone_key = "sk"
    /\ rag_openai_key = ""
    /\ rag_ret.kind = "config_error"

\* C13: on a successful query the output is the model's answer, then the
\* blank-line separator, then exactly one "Source: <source>    Score: <score>"
\* line per retrieved match, in the order in which the query returned them.
C13_Citations ==
    (rag_pc = "returned" /\ rag_ret.kind = "answer") =>
        LET text == rag_ret.text
            n == Len(rag_res)
        IN /\ <<text[1]>> \in ChatResponses
           /\ text[2] = "\n\n"
           /\ Len(text) = 2 + (IF n = 0 THEN 0 ELSE 5 * n - 1)
           /\ \A k \in 1..n :
                 /\ text[5 * k - 2] = "Source: "
                 /\ text[5 * k - 1] = rag_res[k].source
                 /\ text[5 * k] = "    Score: "
                 /\ text[5 * k + 1] = rag_res[k].score
                 /\ k < n => text[5 * k + 2] = NEWLINE

C13_Witness ==
    /\ rag_pc = "returned"
    /\ rag_ret.kind = "answer"
    /\ Len(rag_res) = top_k
    /\ rag_res[1].source = "b"

Called(fn) == \E k \in 1..Len(rag_calls) : rag_calls[k].fn = fn

\* C15: once the index has been opened, whatever fails during the ingestion
\* refresh (or during the logging of that failure), main does not return
\* before the question has been embedded.
C15_AnswerStillRuns ==
    (rag_pc = "returned" /\ rag_index = "index") => Called("get_embeddings")

\* C11: when the ingestion refresh is over, the records passed to the upsert
\* are exactly the rows whose embedding request succeeded, each with its
\* vector: no failure on another row has removed or changed one of them.
C11_UpsertExactlyEmbedded ==
    rag_pc = "answer" =>
        /\ Ids(rag_upserted.rows) = rag_embedded
        /\ \A k \in 1..Len(rag_upserted.rows) : rag_upserted.rows[k].values = "list"

(***************************************************************************)
(* Further claims about generate_embeddings_and_add_to_df.                 *)
(***************************************************************************)
\* C21: should_continue is consulted once before each row and not before
\* the retries of a row, so the function is never stopped by the tracker
\* between two requests of the same row: the early return happens only at
\* a row whose first request has not been made yet.
C21_ConsultedOncePerRow ==
    [][(emb_pc = "while" /\ emb_pc' = "returned") => retries = 0]_vars

(***************************************************************************)
(* Further claims about get_chat_completion_messages.                      *)
(***************************************************************************)
AllConnectionFailures(kinds) == \A i \in 1..Len(kinds) : kinds[i] = "api_connection"

\* C24: when every chat request fails with a connection failure, the wait
\* before retry k is 5 * k seconds, at most 3 retries are made (4 requests),
\* and the call then returns the connectivity apology.
C24_ChatConnectionBackoff ==
    /\ (AllConnectionFailures(chat_kinds) /\ chat_kinds # << >>)
          => /\ Len(chat_kinds) <= 4
             /\ \A k \in 1..Len(chat_waits) : chat_waits[k] = 5 * k
             /\ Len(chat_waits) = IF chat_pc = "returned" THEN 3 ELSE Len(chat_kinds)
    /\ (chat_pc = "returned" /\ AllConnectionFailures(chat_kinds) /\ chat_kinds # << >>)
          => /\ Len(chat_kinds) = 4
             /\ chat_ret = "trouble_connecting"

C24_Witness ==
    /\ chat_pc = "returned"
    /\ chat_kinds = <<"api_connection", "api_connection", "api_connection", "api_connection">>
    /\ chat_waits = <<5, 10, 15>>

(***************************************************************************)
(* Claims about the handlers of the embedding retry loop.                  *)
(***************************************************************************)
RateLimitLike(kind) == kind \in {"rate_limit", "api_429"}

\* the requests of row i that ended in a rate-limit failure of either form
RateLimitFailures(i) ==
    Cardinality({j \in 1..Len(emb_kinds[i]) : RateLimitLike(emb_kinds[i][j])})

OnlyRateLimitLike(i) ==
    \A j \in 1..Len(emb_kinds[i]) : RateLimitLike(emb_kinds[i][j])

\* C25: a generic service error with status 429 has the effect of a
\* rate-limit failure at the same retry number: in a row whose requests all
\* failed in one of the two forms, the k-th wait is 5 * 2^(k-1) seconds, at
\* most 4 requests are made, and every one of these failures has been
\* counted in the tracker's rate_limit count.
C25_Status429LikeRateLimit ==
    emb_pc # "raised" =>
        \A i \in 1..Len(emb_kinds) :
            OnlyRateLimitLike(i) =>
                /\ Len(emb_kinds[i]) <= 4
                /\ \A k \in 1..Len(emb_waits[i]) : emb_waits[i][k] = 5 * (2 ^ (k - 1))
                /\ emb_logs[i] = RateLimitFailures(i)

Terminal(kind) == kind \in {"api_error", "unknown"}

\* C26: a generic service error with a status other than 429, and any
\* unclassified failure, is terminal without retry: the chat call returns
\* an apology after that single failed request, and the embedding loop
\* counts the row failed after that single failed request and goes on to
\* the next row.
C26_TerminalWithoutRetry ==
    /\ \A j \in 1..Len(chat_kinds) :
          Terminal(chat_kinds[j]) =>
              /\ j = Len(chat_kinds)
              /\ chat_pc = "returned"
              /\ chat_ret \in {"encountered_error", "something_wrong"}
    /\ \A i \in 1..Len(emb_kinds) : \A j \in 1..Len(emb_kinds[i]) :
          Terminal(emb_kinds[i][j]) =>
              /\ j = Len(emb_kinds[i])
              /\ counted[i] = "failed"
              /\ emb_i > i
              /\ emb_pc # "raised"

(***************************************************************************)
(* Further claims about manage_pinecone_index.py.                          *)
(***************************************************************************)
\* the record of the create or delete call that ends in this step
Ended == ix_log'[Len(ix_log) + 1]

\* C28: a create call that issued its request returns True only in a state
\* where the name is in the listing, a delete call that issued its request
\* returns True only in a state where the name is absent; and, the service
\* eventually showing the change, a call that is polling eventually returns.
C28_ReturnsWhenListed ==
    /\ [][(Len(ix_log') > Len(ix_log) /\ Ended.requests # << >> /\ Ended.ret = "True")
             => /\ Ended.fn = "create" => (index_listed /\ index_listed')
                /\ Ended.fn = "delete" => (~index_listed /\ ~index_listed')]_vars
    /\ (ix_pc = "wait") ~> (ix_pc # "wait")

C28_Witness ==
    /\ ix_log # << >>
    /\ ix_log[Len(ix_log)].fn = "delete"
    /\ ix_log[Len(ix_log)].requests = <<"delete">>
    /\ ix_log[Len(ix_log)].ret = "True"
    /\ ~index_listed

(***************************************************************************)
(* Further claims about the Space/Page Export CLI.                         *)
(***************************************************************************)
\* the pages accumulated from the first k responses
RECURSIVE CountServed(_)
CountServed(k) ==
    IF k = 0 THEN 0 ELSE CountServed(k - 1) + Len(exp_served[k].results)

\* C29: a further page-list request is issued only while the accumulated
\* page count is below --limit and the last response carried a next link;
\* once the count has reached --limit no request follows; and each request
\* asks for at most 100 pages.
C29_RequestsOnlyWhileNeeded ==
    /\ \A k \in 1..Len(exp_requests) :
          /\ exp_requests[k].limit <= 100
          /\ k > 1 =>
                /\ k - 1 <= Len(exp_served)
                /\ exp_served[k - 1].kind = "page"
                /\ exp_served[k - 1].next
                /\ CountServed(k - 1) < exp_limit
                /\ exp_requests[k].start = CountServed(k - 1)
    /\ exp_pc = "loop" => Len(exp_all_pages) < exp_limit

\* the limit is reached by a response that carries a next link
C29_Witness ==
    /\ exp_pc = "exited"
    /\ exp_limit = 3
    /\ Len(exp_requests) = 2
    /\ Len(exp_all_pages) = 4
    /\ exp_served[2].next

(***************************************************************************)
(* C30: once the production path of Extraction Tool v1 is past the fetch,  *)
(* exactly one chunk has been requested, the first one of 25, and the      *)
(* pages the later steps work on are the results of that chunk.            *)
(***************************************************************************)
C30_FirstPageFetched ==
    (v1_connected /\ v1_pc \notin {"main", "fetch"}) =>
        /\ v1_requests = <<[start |-> 0, limit |-> legacy_limit]>>
        /\ v1_all_pages = LegacyServed(v1_space, 0, legacy_limit)

(***************************************************************************)
(* C23: the pause between batches starts at 2 seconds and always lies      *)
(* between 1 and 30 seconds; it changes only by going down half a second,  *)
(* not below 1, at the end of a batch that took less than a second, or by  *)
(* doubling, not above 30, after an exception of the batch.  The pause is  *)
(* counted in half seconds.                                                *)
(***************************************************************************)
C23_PauseBounded ==
    /\ batch_pause_time = 4
    /\ [](2 <= batch_pause_time /\ batch_pause_time <= 60)
    /\ [][batch_pause_time' # batch_pause_time =>
             /\ rag_pc = "embedding"
             /\ \/ /\ emb_pc = "returned"
                   /\ now = rag_start_time
                   /\ batch_pause_time' = batch_pause_time - 1
                \/ /\ emb_pc = "raised"
                   /\ batch_pause_time' = IF batch_pause_time * 2 > 60 THEN 60
                                          ELSE batch_pause_time * 2]_vars

\* four batches in a row raised: the pause went 4, 8, 16 and was then capped
C23_Witness ==
    /\ rag_pc = "batch"
    /\ rag_i = 4 * batch_size
    /\ batch_pause_time = 60
    /\ Count("batch_processing") = 4

\* the last request of the chat call of the answering step raised one of kinds
ChatFailedWith(kinds) ==
    /\ rag_pc = "returned"
    /\ Called("get_chat_completion_messages")
    /\ chat_kinds[Len(chat_kinds)] \in kinds

QuotaMessage ==
    <<"OpenAI API Error: You've exceeded your quota. Please check your OpenAI API key and billing details.">>

\* the embedding half of C27
C27_EmbeddingHalf ==
    /\ rag_raised = "RateLimitError" =>
          rag_ret = [kind |-> "quota_error", text |-> QuotaMessage]
    /\ rag_raised = "Exception" =>
          rag_ret = [kind |-> "query_error", text |-> <<"Error processing query: ", "e">>]

(***************************************************************************)
(* C27: in the answering step a rate-limit error of the embedding request  *)
(* or of the chat request makes main return the quota message, and any     *)
(* other failure the "Error processing query" message with its detail.     *)
(***************************************************************************)
C27_AnswerErrors ==
    /\ (rag_raised = "RateLimitError" \/ ChatFailedWith({"rate_limit"})) =>
          rag_ret = [kind |-> "quota_error", text |-> QuotaMessage]
    /\ (rag_raised = "Exception"
           \/ ChatFailedWith({"api_connection", "api_error", "unknown"})) =>
          rag_ret = [kind |-> "query_error", text |-> <<"Error processing query: ", "e">>]

\* the batch loop was left by the break of line 101: the last consultation of
\* main was not followed by a call of generate_embeddings_and_add_to_df
BatchLoopBroken ==
    \E k \in 1..Len(rag_calls) :
       /\ rag_calls[k].fn = "should_continue"
       /\ \A j \in (k + 1)..Len(rag_calls) :
             rag_calls[j].fn \notin {"should_continue", "generate_embeddings_and_add_to_df"}
       /\ k = Len(rag_calls) \/ rag_calls[k + 1].fn # "generate_embeddings_and_add_to_df"

(***************************************************************************)
(* C22: when the tracker holds 10 rate_limit errors or more, the last of   *)
(* them no more than 60 seconds old, at the head of a batch, the loop is   *)
(* left: that batch is not handed to the embedding call, no later batch    *)
(* is, and the rows collected from the earlier batches are the rows handed *)
(* to the upsert.                                                          *)
(***************************************************************************)
C22_StopKeepsAccumulated ==
    /\ [][(/\ rag_pc = "batch" /\ rag_pc' # "batch"
           /\ rag_i < Len(rag_df)
           /\ Count("rate_limit") >= 10
           /\ Elapsed("rate_limit") <= 60)
          => /\ rag_pc' = "upsert"
             /\ rag_calls' = Append(rag_calls, Call("should_continue", "rate_limit"))
             /\ UNCHANGED <<processed_df, rag_embedded, rag_i, embedVars>>]_vars
    /\ [](BatchLoopBroken => rag_pc \notin {"batch", "embedding"})
    /\ [][BatchLoopBroken => UNCHANGED <<processed_df, rag_i, embedVars>>]_vars
    /\ [][(BatchLoopBroken /\ rag_pc = "upsert" /\ rag_pc' # "upsert"
              /\ processed_df # << >>)
          => rag_upserted' = [called |-> TRUE, rows |-> processed_df]]_vars

\* the loop was left ahead of the second batch and the rows of the first one
\* were handed to the upsert
C22_Witness ==
    /\ BatchLoopBroken
    /\ rag_i = batch_size
    /\ rag_i < Len(rag_df)
    /\ Len(processed_df) = batch_size
    /\ rag_upserted = [called |-> TRUE, rows |-> processed_df]

(***************************************************************************)
(* C31: when the key does not resolve, get_pages_for_space_key goes on     *)
(* with the listing by key and never returns at that point.  Each pass of  *)
(* that listing makes one request at the current offset; it either ends    *)
(* the listing with what was collected, or appends the results served at   *)
(* that offset and goes on at the next offset exactly when the response    *)
(* has a next link.  What is returned is what was collected.               *)
(***************************************************************************)
C31_FallbackByKey ==
    /\ [][(lister = "get_pages_for_space_key" /\ lister_pc = "resolve"
              /\ lister_pc' # "resolve")
          => /\ lister_pc' \in {"by_id", "by_key"}
             /\ ~space_listed => lister_pc' = "by_key"
             /\ UNCHANGED <<all_pages, requests, start>>]_vars
    /\ [][(lister_pc = "by_key" /\ requests' # requests)
          => /\ requests' = Append(requests, start)
             /\ \/ lister_pc' = "done" /\ all_pages' = all_pages
                \/ LET served == Serve(start, PagesLimit)
                   IN /\ served.kind = "page" /\ served.results # << >>
                      /\ all_pages' = all_pages \o served.results
                      /\ IF served.next
                         THEN lister_pc' = "by_key" /\ start' = start + PagesLimit
                         ELSE lister_pc' = "done"]_vars
    /\ [][lister_pc = "done" => UNCHANGED all_pages]_vars

\* the listing by key has made two requests and goes on to a third
C31_Witness ==
    /\ lister_pc = "by_key"
    /\ Len(requests) = 2
    /\ start = 2 * PagesLimit
    /\ Len(all_pages) = 2 * MaxPerPage

\* the labels response is a dict with a results list of dicts
WellFormedLabels == lbl_json.kind = "labels" /\ \A k \in 1..Len(lbl_json.results) : lbl_json.results[k].kind = "dict"

HasInternalOnly == \E k \in 1..Len(lbl_json.results) : lbl_json.results[k].name = "internal_only"

(***************************************************************************)
(* C32: fetch_labels returns True exactly when the response holds an entry *)
(* named internal_only, False when the response is well formed and holds   *)
(* none, and None when the request failed or the response is malformed.    *)
(***************************************************************************)
C32_FetchLabels ==
    lbl_pc # "call" =>
       /\ (WellFormedLabels /\ HasInternalOnly) => (lbl_pc = "returned" /\ lbl_ret = "True")
       /\ (WellFormedLabels /\ ~HasInternalOnly) => (lbl_pc = "returned" /\ lbl_ret = "False")
       /\ ~WellFormedLabels => (lbl_pc = "returned" /\ lbl_ret = "None")

\* the part of C32 that holds: well-formed responses and failed requests
C32_WellFormedHalf ==
    lbl_pc # "call" =>
       /\ (WellFormedLabels /\ HasInternalOnly) => (lbl_pc = "returned" /\ lbl_ret = "True")
       /\ (WellFormedLabels /\ ~HasInternalOnly) => (lbl_pc = "returned" /\ lbl_ret = "False")
       /\ ~Truthy(lbl_json) => (lbl_pc = "returned" /\ lbl_ret = "None")

C34_SharedRetryBudget ==
    /\ \A i \in DOMAIN emb_kinds : Len(emb_kinds[i]) <= 4
    /\ Len(chat_kinds) <= 4

\* a row given up after four requests that failed in three different ways
C34_Witness ==
    /\ Len(emb_kinds) >= 1
    /\ emb_kinds[1] = <<"rate_limit", "api_connection", "api_429", "api_connection">>
    /\ counted[1] = "failed"

\* the call went through every row and returned the tagged frame (lines
\* 236-252), not the partial one of the early stop
EmbedCompleted == emb_pc = "returned" /\ emb_ret = "df" /\ emb_i > Len(batch)

(***************************************************************************)
(* C35: when generate_embeddings_and_add_to_df has gone through every row, *)
(* the successful count plus the failed count is the number of rows, and   *)
(* the rows tagged success are as many as the successful count.            *)
(***************************************************************************)
C35_CountsAddUp ==
    EmbedCompleted =>
        /\ successful_embeddings + failed_embeddings = Len(batch)
        /\ Cardinality({i \in 1..Len(batch) : embedding_status[i] = "success"})
              = successful_embeddings

\* a batch of two rows, one embedded after a retry and one given up
C35_Witness ==
    /\ EmbedCompleted
    /\ Len(batch) = 2
    /\ successful_embeddings = 1
    /\ failed_embeddings = 1
    /\ embedding_status = <<"success", "not_processed">>
    /\ emb_kinds[1] = <<"rate_limit", "ok">>

\* C36: every run of the orchestrator with a configured space key
\* eventually terminates: each step program that was started eventually
\* exits, and the run eventually stops at a failed step or after the CSV
\* listing.
C36_RunTerminates ==
    /\ \A step \in 1..3 : (step \in pl_running) ~> (step \notin pl_running)
    /\ (pl_pc = "start" /\ pl_space_key) ~> (pl_pc \in {"done", "crashed"})

\* the service gives no response with more pages than the request asked for
ServesAtMostRequested ==
    \A k \in 1..Len(exp_served) :
        Len(exp_served[k].results) <= Min(exp_limit, ApiMaxLimit)

\* C37: for every --limit and every service that returns at most the
\* requested number of pages per request, the number of rows written to
\* the output CSV never exceeds --limit.
C37_RowsWithinLimit ==
    (ServesAtMostRequested /\ exp_file.written)
        => Len(exp_file.rows) <= exp_limit

(***************************************************************************)
(* Further claims about main of the RAG Query Application.                 *)
(***************************************************************************)
\* the strings main returns
ReturnKinds ==
    {"config_error", "pinecone_error", "unexpected_error", "quota_error",
     "query_error", "answer"}

\* the places of main between its first statement and its return
RagPlaces ==
    {"main", "refresh", "batch", "embedding", "upsert", "handler", "answer", "chat"}

\* C38: whatever fails (the CSV load, the embedding service, the chat
\* service, the vector index, the write of the error log), main is left by
\* a return of a string only: it is at one of its statements or has
\* returned, and what it returns is an answer or an error text.
C38_MainReturnsString ==
    /\ rag_pc \in RagPlaces \cup {"returned"}
    /\ rag_pc \in RagPlaces => rag_ret = Running
    /\ rag_pc = "returned" =>
          /\ rag_ret.kind \in ReturnKinds
          /\ rag_ret.text # << >>
          /\ \A k \in 1..Len(rag_ret.text) : rag_ret.text[k] # "None"

\* the write of the error log failed inside the handler of the preparation
\* failure, itself reached by an exception out of the embedding call
C38_Witness ==
    /\ rag_pc = "returned"
    /\ rag_ret = [kind |-> "unexpected_error", text |-> <<"Unexpected error: ", "e">>]
    /\ emb_pc = "raised"

====
